---- MODULE Spec2Model ----
(***************************************************************************)
(* A model of the redis server of this repository: the per-connection      *)
(* transaction state machine (MULTI / EXEC / DISCARD), the keyspace, the   *)
(* registry of blocked BLPOP tasks and the fan-out of write commands to    *)
(* replicas.  Connections are tasks of a multi-threaded runtime: every     *)
(* action below is one span of a handler during which the handler holds    *)
(* the storage mutexes, or touches only state of its own connection.       *)
(***************************************************************************)
EXTENDS Integers, Sequences, FiniteSets

\* Bounds of the model.
MaxCmds == 5
MaxBlockCmds == 3
MaxStreamCmds == 3

MaxReplCmds == 4

MaxSyncCmds == 3

MaxWireCmds == 3

MaxRangeCmds == 3

MaxKeyCmds == 3

MaxLrangeCmds == 3

\* Client connections (Conn.id) and the keys the clients use.
Conns == {1, 2}
BlockConns == {1, 2, 3}
Keys == {"a", "q", "s"}

(***************************************************************************)
(* serde_redis::Value                                                      *)
(***************************************************************************)
SimpleString(s) == [t |-> "simple", s |-> s]

SimpleError(prefix, msg) == [t |-> "error", prefix |-> prefix, msg |-> msg]

Integer(n) == [t |-> "integer", n |-> n]

BulkString(s) == [t |-> "bulk", s |-> s]

BulkNull == [t |-> "bulk_null"]

Array(a) == [t |-> "array", a |-> a]

\* Array::null
ArrayNull == [t |-> "array_null"]

\* No value: an Option that is None.
NoValue == [t |-> "none"]

\* A request: the command name (already uppercased) and its bulk string arguments.
Frame(cmd, args) == [cmd |-> cmd, args |-> args]

NoFrame == Frame("", <<>>)

\* str::parse::<i64> on the strings the clients send: -1 stands for Err.
ParseI64(s) ==
    CASE s = "0" -> 0
      [] s = "1" -> 1
      [] s = "2" -> 2
      [] OTHER -> -1

\* str::parse::<i32> on the strings the clients send.
ParseI32(s) ==
    CASE s = "-4" -> [ok |-> TRUE, v |-> -4]
      [] s = "-3" -> [ok |-> TRUE, v |-> -3]
      [] s = "-2" -> [ok |-> TRUE, v |-> -2]
      [] s = "-1" -> [ok |-> TRUE, v |-> -1]
      [] s = "0" -> [ok |-> TRUE, v |-> 0]
      [] s = "1" -> [ok |-> TRUE, v |-> 1]
      [] s = "2" -> [ok |-> TRUE, v |-> 2]
      [] s = "3" -> [ok |-> TRUE, v |-> 3]
      [] OTHER -> [ok |-> FALSE, e |-> "ParseIntError"]

\* Value::simple_name
simple_name(v) ==
    CASE v.t \in {"simple", "bulk", "bulk_null"} -> "string"
      [] v.t = "error" -> "error"
      [] v.t = "integer" -> "integer"
      [] v.t \in {"array", "array_null"} -> "list"
      [] OTHER -> "null"

Digits == <<"0", "1", "2", "3", "4", "5", "6", "7", "8", "9">>

\* i64::to_string for the non-negative integers of the model.
RECURSIVE to_string(_)
to_string(n) ==
    IF n < 10 THEN Digits[n + 1] ELSE to_string(n \div 10) \o Digits[(n % 10) + 1]

(***************************************************************************)
(* storage: OpError, ValueCell, LpopBlockedTask                            *)
(***************************************************************************)
OpErrorMessage(e) ==
    CASE e = "KeyAbsent" -> SimpleError("KEYNOTFOUND", "key not found in storage")
      [] e = "TypeMismatch" ->
            SimpleError("WRONGTYPE", "Operation against a key holding the wrong kind of value")
      [] e = "InvalidInteger" ->
            SimpleError("ERR", "value is not an integer or out of range")
      [] e = "InvalidStreamId" ->
            SimpleError("ERR", "The ID specified in XADD must be greater than 0-0")
      [] e = "TooSmallStreamId" ->
            SimpleError("ERR",
                "The ID specified in XADD is equal or smaller than the target stream top item")

\* A key that is not in the map.
Absent == [t |-> "absent"]

\* exp: "never" (no expiration), "live" (expiration in the future), "expired".
ValueCell(value, exp) == [t |-> "cell", value |-> value, exp |-> exp]

\* ValueCell::live_value / live_value_mut
IsLive(cell) == cell.exp # "expired"

\* A registered blocked BLPOP: its key, the connection holding the receiving end of
\* the oneshot channel, and whether that receiving end still exists.
LpopBlockedTask(key, conn) == [key |-> key, conn |-> conn, open |-> TRUE]

Ok(v) == [ok |-> TRUE, v |-> v]

Err(e) == [ok |-> FALSE, e |-> e]

RemoveAt(s, i) == SubSeq(s, 1, i - 1) \o SubSeq(s, i + 1, Len(s))

\* Iterator::position(|task| task.key == key): 0 stands for None.
Position(tasks, key) ==
    IF \E i \in 1..Len(tasks) : tasks[i].key = key
    THEN CHOOSE i \in 1..Len(tasks) :
            /\ tasks[i].key = key
            /\ \A j \in 1..(i - 1) : tasks[j].key # key
    ELSE 0

\* The loop of insert_list that feeds the blocked tasks before anything is stored.
\* sent: the deliveries made, in order; panic: sender.send(v).unwrap() met a
\* channel whose receiver is gone.
RECURSIVE FeedBlockedTasks(_, _, _, _)
FeedBlockedTasks(tasks, key, value, sent) ==
    IF value = <<>>
    THEN [tasks |-> tasks, value |-> value, sent |-> sent, panic |-> FALSE]
    ELSE LET pos == Position(tasks, key)
         IN  IF pos = 0
             THEN [tasks |-> tasks, value |-> value, sent |-> sent, panic |-> FALSE]
             ELSE IF ~tasks[pos].open
                  THEN [tasks |-> RemoveAt(tasks, pos), value |-> Tail(value),
                        sent |-> sent, panic |-> TRUE]
                  ELSE FeedBlockedTasks(RemoveAt(tasks, pos), key, Tail(value),
                                        Append(sent, [conn |-> tasks[pos].conn,
                                                      v |-> Head(value)]))

RECURSIVE Reverse(_)
Reverse(s) == IF s = <<>> THEN <<>> ELSE Append(Reverse(Tail(s)), Head(s))

\* Array::prepend
Prepend(arr, value) == Reverse(value) \o arr

\* The count without the elements handed to blocked tasks.
reply_count_stored_only(len, interupted_count) == len

\* Storage::insert_list: the count it returns, arr.len() + interupted_count.
reply_count(len, interupted_count) == len + interupted_count

\* Storage::insert_list.  The result: the map, the registry, the deliveries, whether
\* the call panicked, and the OpResult.
insert_list(d, tasks, key, value, create, prepend) ==
    LET fed == FeedBlockedTasks(tasks, key, value, <<>>)
        interupted_count == Len(fed.sent)
        rest == fed.value
    IN  IF fed.panic
        THEN [data |-> d, tasks |-> fed.tasks, sent |-> fed.sent, panic |-> TRUE,
              res |-> Err("panic")]
        ELSE IF d[key] # Absent
        THEN IF d[key].value.t = "array"
             THEN LET arr == IF prepend THEN Prepend(d[key].value.a, rest)
                                        ELSE d[key].value.a \o rest
                  IN  [data |-> [d EXCEPT ![key] = ValueCell(Array(arr), d[key].exp)],
                       tasks |-> fed.tasks, sent |-> fed.sent, panic |-> FALSE,
                       res |-> Ok(reply_count(Len(arr), interupted_count))]
             ELSE [data |-> d, tasks |-> fed.tasks, sent |-> fed.sent, panic |-> FALSE,
                   res |-> Err("TypeMismatch")]
        ELSE IF ~create
        THEN [data |-> d, tasks |-> fed.tasks, sent |-> fed.sent, panic |-> FALSE,
              res |-> Err("KeyAbsent")]
        ELSE [data |-> [d EXCEPT ![key] = ValueCell(Array(rest), "never")],
              tasks |-> fed.tasks, sent |-> fed.sent, panic |-> FALSE,
              res |-> Ok(reply_count(Len(rest), interupted_count))]

\* Storage::insert
insert(d, key, value, exp) == [d EXCEPT ![key] = ValueCell(value, exp)]

\* Storage::get: the value read and the map after the clean up of an expired cell.
get(d, key) ==
    IF d[key] = Absent THEN [data |-> d, v |-> NoValue]
    ELSE IF IsLive(d[key]) THEN [data |-> d, v |-> d[key].value]
    ELSE [data |-> [d EXCEPT ![key] = Absent], v |-> NoValue]

\* The increase looks at the value of the cell whatever its expiration.
integer_increase_ignores_expiration(d, key) ==
    IF d[key] # Absent
    THEN IF d[key].value.t = "integer"
         THEN LET v == Integer(d[key].value.n + 1)
              IN  [data |-> [d EXCEPT ![key] = ValueCell(v, d[key].exp)], res |-> Ok(v)]
         ELSE [data |-> d, res |-> Err("InvalidInteger")]
    ELSE [data |-> [d EXCEPT ![key] = ValueCell(Integer(1), "never")],
          res |-> Ok(Integer(1))]

\* Storage::integer_increase
integer_increase(d, key) ==
    IF d[key] # Absent /\ IsLive(d[key])
    THEN IF d[key].value.t = "integer"
         THEN LET v == Integer(d[key].value.n + 1)
              IN  [data |-> [d EXCEPT ![key] = ValueCell(v, d[key].exp)], res |-> Ok(v)]
         ELSE [data |-> d, res |-> Err("InvalidInteger")]
    ELSE [data |-> [d EXCEPT ![key] = ValueCell(Integer(1), "never")],
          res |-> Ok(Integer(1))]

Min(a, b) == IF a < b THEN a ELSE b

\* Storage::array_pop_front; count = -1 stands for None.  Ok(NoValue) is Ok(None).
array_pop_front(d, key, count) ==
    IF d[key] = Absent THEN [data |-> d, res |-> Err("KeyAbsent")]
    ELSE IF d[key].value.t # "array" THEN [data |-> d, res |-> Err("TypeMismatch")]
    ELSE LET arr == d[key].value.a
         IN  IF arr = <<>> THEN [data |-> d, res |-> Ok(NoValue)]
             ELSE IF count = -1
             THEN [data |-> [d EXCEPT ![key] = ValueCell(Array(Tail(arr)), d[key].exp)],
                   res |-> Ok(Head(arr))]
             ELSE LET c == Min(count, Len(arr))
                  IN  [data |-> [d EXCEPT ![key] =
                                    ValueCell(Array(SubSeq(arr, c + 1, Len(arr))), d[key].exp)],
                       res |-> Ok(Array(SubSeq(arr, 1, c)))]

\* Storage::array_get_length
array_get_length(d, key) ==
    IF d[key] = Absent THEN Err("KeyAbsent")
    ELSE IF d[key].value.t # "array" THEN Err("TypeMismatch")
    ELSE Ok(Len(d[key].value.a))

\* The values of usize are counted modulo this number, which stands for 2^64.
UsizeModulus == 1073741824

\* Storage::lrange.  from and to are the i32 arguments; overflow_checks tells whether
\* the build panics on an arithmetic overflow or wraps around.  The cell is taken from
\* the map whatever its expiration.
lrange(d, key, from, to, overflow_checks) ==
    IF d[key] # Absent /\ d[key].value.t = "array"
    THEN LET arr == d[key].value.a
             start2 == IF from >= 0 THEN from
                       ELSE IF Len(arr) < -from THEN 0
                       ELSE Len(arr) - (-1 * from)
             end2 == IF to >= 0 THEN to
                     ELSE (Len(arr) - (-1 * to)) % UsizeModulus
             taken == (end2 - start2 + 1) % UsizeModulus
         IN  IF arr = <<>> THEN [panic |-> FALSE, res |-> Ok(Array(<<>>))]
             ELSE IF overflow_checks /\ to < 0 /\ Len(arr) < -1 * to
             THEN [panic |-> TRUE, res |-> Err("panic")]
             ELSE IF end2 < start2 THEN [panic |-> FALSE, res |-> Ok(Array(<<>>))]
             ELSE [panic |-> FALSE,
                   res |-> Ok(Array(SubSeq(arr, start2 + 1,
                                           Min(Len(arr), start2 + taken))))]
    ELSE [panic |-> FALSE, res |-> Ok(Array(<<>>))]

\* Storage::get_value_type: streams is the map of the streams.
get_value_type(d, streams, key) ==
    IF d[key] # Absent /\ IsLive(d[key])
    THEN Ok(simple_name(d[key].value))
    ELSE IF streams[key] # Absent THEN Ok("stream")
    ELSE Err("KeyAbsent")

(***************************************************************************)
(* storage::stream: StreamId, StreamEntry, Stream, and the blocked XREADs   *)
(***************************************************************************)
\* StreamId::Value, StreamId::Auto, StreamId::PartialAuto
StreamIdValue(time_id, seq_id) == [kind |-> "value", time_id |-> time_id, seq_id |-> seq_id]

StreamIdAuto == [kind |-> "auto"]

StreamIdPartialAuto(time_id) == [kind |-> "partial", time_id |-> time_id]

\* format!("{}-{}", time_id, seq_id)
FormatId(time_id, seq_id) == to_string(time_id) \o "-" \o to_string(seq_id)

\* A BTreeMap without keys.
EmptyMap == [x \in {} |-> 0]

\* BTreeMap::insert
MapInsert(map, k, v) == [x \in (DOMAIN map) \cup {k} |-> IF x = k THEN v ELSE map[x]]

\* The keys of a BTreeMap in the order it iterates them: ascending.
RECURSIVE Ascending(_)
Ascending(S) ==
    IF S = {} THEN <<>>
    ELSE LET least == CHOOSE x \in S : \A y \in S : x <= y
         IN  <<least>> \o Ascending(S \ {least})

\* StreamEntry::new
StreamEntry(seq_id, values) == [last_entry_seq_id |-> seq_id, data |-> values]

\* Stream::new
StreamNew == [last_entry_time_id |-> 0, entries |-> EmptyMap]

\* The stream accepts every id that is not below its top id.
add_entry_accepts_equal(st, time_id, seq_id, values) ==
    IF time_id = 0 /\ seq_id = 0 THEN [stream |-> st, res |-> Err("InvalidStreamId")]
    ELSE IF time_id < st.last_entry_time_id
    THEN [stream |-> st, res |-> Err("TooSmallStreamId")]
    ELSE IF time_id \in DOMAIN st.entries
    THEN LET entry == st.entries[time_id]
         IN  IF seq_id < entry.last_entry_seq_id
             THEN [stream |-> st, res |-> Err("TooSmallStreamId")]
             ELSE [stream |->
                      [last_entry_time_id |-> time_id,
                       entries |-> MapInsert(st.entries, time_id,
                                      [last_entry_seq_id |-> seq_id,
                                       data |-> MapInsert(entry.data, seq_id, values)])],
                   res |-> Ok(StreamIdValue(time_id, seq_id))]
    ELSE [stream |->
             [last_entry_time_id |-> time_id,
              entries |-> MapInsert(st.entries, time_id,
                             StreamEntry(seq_id, MapInsert(EmptyMap, seq_id, values)))],
          res |-> Ok(StreamIdValue(time_id, seq_id))]

\* Stream::add_entry
add_entry(st, time_id, seq_id, values) ==
    IF time_id = 0 /\ seq_id = 0 THEN [stream |-> st, res |-> Err("InvalidStreamId")]
    ELSE IF time_id < st.last_entry_time_id
    THEN [stream |-> st, res |-> Err("TooSmallStreamId")]
    ELSE IF time_id \in DOMAIN st.entries
    THEN LET entry == st.entries[time_id]
         IN  IF seq_id <= entry.last_entry_seq_id
             THEN [stream |-> st, res |-> Err("TooSmallStreamId")]
             ELSE [stream |->
                      [last_entry_time_id |-> time_id,
                       entries |-> MapInsert(st.entries, time_id,
                                      [last_entry_seq_id |-> seq_id,
                                       data |-> MapInsert(entry.data, seq_id, values)])],
                   res |-> Ok(StreamIdValue(time_id, seq_id))]
    ELSE [stream |->
             [last_entry_time_id |-> time_id,
              entries |-> MapInsert(st.entries, time_id,
                             StreamEntry(seq_id, MapInsert(EmptyMap, seq_id, values)))],
          res |-> Ok(StreamIdValue(time_id, seq_id))]

\* Stream::get_next_seq_id
get_next_seq_id(st, time_id) ==
    IF time_id \in DOMAIN st.entries THEN st.entries[time_id].last_entry_seq_id + 1 ELSE 0

\* Stream::get_range: the entries from start to end, as [id, values] arrays.
get_range(st, from, to) ==
    LET start_time_id == IF from.kind = "auto" THEN 0 ELSE from.time_id
        start_seq_id == IF from.kind = "value" THEN from.seq_id ELSE 0
        end_time_id == IF to.kind = "auto" THEN st.last_entry_time_id ELSE to.time_id
        times == SelectSeq(Ascending(DOMAIN st.entries),
                           LAMBDA t : start_time_id <= t /\ t <= end_time_id)
        OfEntry(t) ==
            LET entry == st.entries[t]
                end_seq_id == IF to.kind = "value" THEN to.seq_id
                              ELSE entry.last_entry_seq_id
                seqs == SelectSeq(Ascending(DOMAIN entry.data),
                                  LAMBDA q : start_seq_id <= q /\ q <= end_seq_id)
            IN  [i \in 1..Len(seqs) |->
                    Array(<<SimpleString(FormatId(t, seqs[i])), Array(entry.data[seqs[i]])>>)]
        Collect[i \in 0..Len(times)] ==
            IF i = 0 THEN <<>> ELSE Collect[i - 1] \o OfEntry(times[i])
    IN  Array(Collect[Len(times)])

\* XreadBlockedTarget::with_id
XreadBlockedTarget(key, start_time_id, start_seq_id) ==
    [key |-> key, start_time_id |-> start_time_id, start_seq_id |-> start_seq_id,
     only_new_entry |-> FALSE]

\* XreadBlockedTarget::with_new_entry
XreadBlockedTargetNew(key) ==
    [key |-> key, start_time_id |-> 0, start_seq_id |-> 0, only_new_entry |-> TRUE]

\* XreadBlockedTask::new, with the connection that holds the receiver of its channel
\* and whether that receiver still exists.
XreadBlockedTask(targets, conn) == [targets |-> targets, conn |-> conn, open |-> TRUE]

\* The predicate of XreadBlockedTask::extract_target_waiting_for_id
WaitingForId(target, key, time_id, seq_id) ==
    /\ ~target.only_new_entry
    /\ target.key = key
    /\ target.start_time_id <= time_id
    /\ target.start_seq_id <= seq_id

\* The predicate of XreadBlockedTask::extract_target_waiting_for_new_entry
WaitingForNewEntry(target, key) == target.only_new_entry /\ target.key = key

\* Stream::add_entry, the flag stream_add_value takes from its result: the entry
\* opened a time bucket of its own.
SavedInNewEntry(st, time_id) == time_id \notin DOMAIN st.entries

\* Storage::stream_add_value, the feeding of the blocked XREADs: the tasks are
\* searched from the last to the first, idx counts the tasks visited, and the task
\* at index idx from the front is the one removed and sent to.
FeedXreadTasks(xtasks, key, time_id, seq_id, value, saved_in_new_entry) ==
    LET n == Len(xtasks)
        Waiting(t) == \/ WaitingForId(t, key, time_id, seq_id)
                      \/ saved_in_new_entry /\ WaitingForNewEntry(t, key)
        Matches(i) == \E j \in 1..Len(xtasks[i].targets) : Waiting(xtasks[i].targets[j])
    IN  IF ~\E i \in 1..n : Matches(i)
        THEN [xtasks |-> xtasks, sent |-> <<>>, panic |-> FALSE]
        ELSE LET found == CHOOSE i \in 1..n :
                            Matches(i) /\ \A k \in (i + 1)..n : ~Matches(k)
                 idx == n - found
                 matching == SelectSeq(xtasks[found].targets,
                                LAMBDA t : WaitingForId(t, key, time_id, seq_id))
                             \o SelectSeq(xtasks[found].targets,
                                LAMBDA t : saved_in_new_entry /\ WaitingForNewEntry(t, key))
                 target_tasks == [j \in 1..Len(matching) |-> matching[j].key]
                 extracted == [xtasks EXCEPT ![found].targets =
                                SelectSeq(@, LAMBDA t : ~Waiting(t))]
                 task == extracted[idx + 1]
                 values_with_id == Array(<<SimpleString(FormatId(time_id, seq_id)),
                                           Array(value)>>)
             IN  IF task.open
                 THEN [xtasks |-> RemoveAt(extracted, idx + 1),
                       sent |-> <<[conn |-> task.conn,
                                   v |-> [keys |-> target_tasks, value |-> values_with_id]]>>,
                       panic |-> FALSE]
                 ELSE [xtasks |-> RemoveAt(extracted, idx + 1), sent |-> <<>>,
                       panic |-> TRUE]

\* Storage::stream_add_value; now is what SystemTime::now() reads, in milliseconds.
stream_add_value(streams, xtasks, key, stream_id, value, now) ==
    LET st == IF streams[key] = Absent THEN StreamNew ELSE streams[key]
        time_id == IF stream_id.kind = "auto" THEN now ELSE stream_id.time_id
        next_seq_id == IF streams[key] = Absent THEN 0 ELSE get_next_seq_id(st, time_id)
        seq_id == CASE stream_id.kind = "value" -> stream_id.seq_id
                    [] stream_id.kind = "auto" -> 0
                    [] OTHER -> IF time_id = 0 /\ next_seq_id = 0 THEN 1 ELSE next_seq_id
        ret == add_entry(st, time_id, seq_id, value)
        stored == [streams EXCEPT ![key] = ret.stream]
    IN  IF ret.res.ok
        THEN LET fed == FeedXreadTasks(xtasks, key, time_id, seq_id, value,
                                       SavedInNewEntry(st, time_id))
             IN  [stream |-> stored, xtasks |-> fed.xtasks, sent |-> fed.sent,
                  panic |-> fed.panic, res |-> ret.res]
        ELSE [stream |-> stored, xtasks |-> xtasks, sent |-> <<>>, panic |-> FALSE,
              res |-> ret.res]

\* Storage::stream_get_range
stream_get_range(streams, key, from, to) ==
    IF streams[key] = Absent THEN Err("KeyAbsent") ELSE Ok(get_range(streams[key], from, to))

\* str::split_once('-') on the ids the clients send: NoValue stands for None.
SplitOnceDash(s) ==
    CASE s = "0-0" -> <<"0", "0">>
      [] s = "0-1" -> <<"0", "1">>
      [] s = "0-*" -> <<"0", "*">>
      [] s = "1-0" -> <<"1", "0">>
      [] s = "1-1" -> <<"1", "1">>
      [] s = "1-*" -> <<"1", "*">>
      [] s = "2-0" -> <<"2", "0">>
      [] s = "2-1" -> <<"2", "1">>
      [] OTHER -> NoValue

\* The id of XADD as handle_xadd_command parses it: NoValue stands for None.
ParseXaddId(id) ==
    IF id = "*" THEN StreamIdAuto
    ELSE LET parts == SplitOnceDash(id)
         IN  IF parts = NoValue THEN NoValue
             ELSE IF ParseI64(parts[1]) # -1 /\ ParseI64(parts[2]) # -1
             THEN StreamIdValue(ParseI64(parts[1]), ParseI64(parts[2]))
             ELSE IF ParseI64(parts[1]) # -1 /\ parts[2] = "*"
             THEN StreamIdPartialAuto(ParseI64(parts[1]))
             ELSE NoValue

\* parse_stream_id of xread.rs: the start is the id after the one given.
ParseXreadId(id) ==
    LET parts == SplitOnceDash(id)
    IN  IF parts = NoValue THEN NoValue
        ELSE IF ParseI64(parts[1]) # -1 /\ ParseI64(parts[2]) # -1
        THEN StreamIdValue(ParseI64(parts[1]), ParseI64(parts[2]) + 1)
        ELSE NoValue

(***************************************************************************)
(* command handlers.  A handler's result: the map and the registry after   *)
(* it, the deliveries it made to blocked tasks, its reply, whether the     *)
(* reply is written with stream.write instead of Conn::write_value, and    *)
(* how it ended: "ok" (returned Ok), "err" (returned Err or panicked       *)
(* without a lock), "panic" (panicked holding the storage mutexes),        *)
(* "block" (BLPOP found nothing and goes on to register a blocked task).   *)
(***************************************************************************)
Handled(d, tasks, reply, direct) ==
    [data |-> d, tasks |-> tasks, sent |-> <<>>, reply |-> reply, direct |-> direct,
     status |-> "ok", key |-> "", timeout |-> FALSE]

Failed(d, tasks, status) ==
    [data |-> d, tasks |-> tasks, sent |-> <<>>, reply |-> NoValue, direct |-> FALSE,
     status |-> status, key |-> "", timeout |-> FALSE]

handle_ping_command(d, tasks) == Handled(d, tasks, SimpleString("PONG"), TRUE)

handle_echo_command(d, tasks, args) ==
    IF args = <<>> THEN Failed(d, tasks, "err")
    ELSE Handled(d, tasks, BulkString(args[Len(args)]), TRUE)

handle_set_command(d, tasks, poisoned, args) ==
    IF Len(args) < 2 THEN Failed(d, tasks, "err")
    ELSE LET key == args[1]
             value == IF ParseI64(args[2]) # -1 THEN Integer(ParseI64(args[2]))
                      ELSE BulkString(args[2])
         IN  IF Len(args) = 2
             THEN IF poisoned THEN Failed(d, tasks, "panic")
                  ELSE Handled(insert(d, key, value, "never"), tasks, SimpleString("OK"), FALSE)
             ELSE IF Len(args) = 4 /\ args[3] \in {"px", "PX"} /\ ParseI64(args[4]) # -1
             THEN IF poisoned THEN Failed(d, tasks, "panic")
                  ELSE Handled(insert(d, key, value, "live"), tasks, SimpleString("OK"), FALSE)
             ELSE Failed(d, tasks, "err")

handle_get_command(d, tasks, poisoned, args) ==
    IF args = <<>> THEN Failed(d, tasks, "err")
    ELSE IF poisoned THEN Failed(d, tasks, "panic")
    ELSE LET got == get(d, args[1])
             value == IF got.v = NoValue THEN BulkNull
                      ELSE IF got.v.t = "integer" THEN BulkString(to_string(got.v.n))
                      ELSE got.v
         IN  Handled(got.data, tasks, value, TRUE)

handle_incr_command(d, tasks, poisoned, args) ==
    IF args = <<>> THEN Failed(d, tasks, "err")
    ELSE IF poisoned THEN Failed(d, tasks, "panic")
    ELSE LET r == integer_increase(d, args[1])
         IN  Handled(r.data, tasks,
                     IF r.res.ok THEN r.res.v ELSE OpErrorMessage(r.res.e), FALSE)

\* handle_rpush_command (prepend = FALSE) and handle_lpush_command (prepend = TRUE)
handle_push_command(d, tasks, poisoned, args, prepend) ==
    IF args = <<>> THEN Failed(d, tasks, "err")
    ELSE LET key == args[1]
             values == [i \in 1..(Len(args) - 1) |-> SimpleString(args[i + 1])]
         IN  IF values = <<>>
             THEN Handled(d, tasks, SimpleError("EARG", "empty list args"), TRUE)
             ELSE IF poisoned THEN Failed(d, tasks, "panic")
             ELSE LET r == insert_list(d, tasks, key, values, TRUE, prepend)
                  IN  IF r.panic
                      THEN [Failed(r.data, r.tasks, "panic") EXCEPT !.sent = r.sent]
                      ELSE [Handled(r.data, r.tasks,
                                    IF r.res.ok THEN Integer(r.res.v)
                                    ELSE OpErrorMessage(r.res.e), TRUE)
                            EXCEPT !.sent = r.sent]

handle_rpush_command(d, tasks, poisoned, args) ==
    handle_push_command(d, tasks, poisoned, args, FALSE)

handle_lpush_command(d, tasks, poisoned, args) ==
    handle_push_command(d, tasks, poisoned, args, TRUE)

handle_lpop_command(d, tasks, poisoned, args) ==
    IF args = <<>> THEN Failed(d, tasks, "err")
    ELSE IF Len(args) > 1 /\ ParseI64(args[2]) = -1 THEN Failed(d, tasks, "err")
    ELSE IF poisoned THEN Failed(d, tasks, "panic")
    ELSE LET count == IF Len(args) > 1 THEN ParseI64(args[2]) ELSE -1
             r == array_pop_front(d, args[1], count)
             value == IF r.res.ok
                      THEN (IF r.res.v = NoValue THEN BulkNull ELSE r.res.v)
                      ELSE IF r.res.e = "KeyAbsent" THEN Integer(0)
                      ELSE OpErrorMessage(r.res.e)
         IN  Handled(r.data, tasks, value, FALSE)

\* handle_blpop_command up to the point where it blocks: args are the key and the
\* timeout in seconds ("0": wait forever).
handle_blpop_command(d, tasks, poisoned, args) ==
    IF args = <<>> THEN Failed(d, tasks, "err")
    ELSE IF Len(args) = 1
    THEN Handled(d, tasks, SimpleError("EARG", "empty list args"), FALSE)
    ELSE IF args[2] # "0" /\ ParseI64(args[2]) = -1
    THEN Handled(d, tasks, SimpleError("EARG", "faied to parse timeout duration"), FALSE)
    ELSE IF poisoned THEN Failed(d, tasks, "panic")
    ELSE LET r == array_pop_front(d, args[1], -1)
         IN  IF r.res.ok /\ r.res.v # NoValue
             THEN Handled(r.data, tasks, r.res.v, FALSE)
             ELSE IF r.res.ok \/ r.res.e = "KeyAbsent"
             THEN [Failed(r.data, tasks, "block")
                   EXCEPT !.key = args[1], !.timeout = (args[2] # "0")]
             ELSE Handled(r.data, tasks, OpErrorMessage(r.res.e), FALSE)

handle_llen_command(d, tasks, poisoned, args) ==
    IF args = <<>> THEN Failed(d, tasks, "err")
    ELSE IF poisoned THEN Failed(d, tasks, "panic")
    ELSE LET r == array_get_length(d, args[1])
             content == IF r.ok THEN Integer(r.v)
                        ELSE IF r.e = "KeyAbsent" THEN Integer(0)
                        ELSE OpErrorMessage(r.e)
         IN  Handled(d, tasks, content, FALSE)

\* The command names that dispatch_command and dispatch_normal_command match.
KnownCommands ==
    {"MULTI", "EXEC", "DISCARD", "INFO", "REPLCONF", "PSYNC", "PING", "ECHO", "SET", "GET",
     "RPUSH", "LRANGE", "LPUSH", "LLEN", "LPOP", "BLPOP", "TYPE", "XADD", "XRANGE",
     "XREAD", "INCR"}

\* The commands after which dispatch_normal_command returns DispatchResult::ReplicaSync.
SyncedCommands == {"SET", "RPUSH", "LPUSH", "LPOP", "BLPOP", "XADD", "INCR"}

dispatch_normal_command(d, tasks, poisoned, cmd, args) ==
    CASE cmd = "PING" -> handle_ping_command(d, tasks)
      [] cmd = "ECHO" -> handle_echo_command(d, tasks, args)
      [] cmd = "SET" -> handle_set_command(d, tasks, poisoned, args)
      [] cmd = "GET" -> handle_get_command(d, tasks, poisoned, args)
      [] cmd = "RPUSH" -> handle_rpush_command(d, tasks, poisoned, args)
      [] cmd = "LPUSH" -> handle_lpush_command(d, tasks, poisoned, args)
      [] cmd = "LPOP" -> handle_lpop_command(d, tasks, poisoned, args)
      [] cmd = "BLPOP" -> handle_blpop_command(d, tasks, poisoned, args)
      [] cmd = "INCR" -> handle_incr_command(d, tasks, poisoned, args)
      [] cmd = "LLEN" -> handle_llen_command(d, tasks, poisoned, args)
      [] OTHER -> Failed(d, tasks, "err")

(***************************************************************************)
(* The state.                                                              *)
(***************************************************************************)
VARIABLES
    data,               \* StorageInner.data: key -> ValueCell, or Absent
    lpop_blocked_task,  \* Storage.lpop_blocked_task: the registry of blocked BLPOPs
    poisoned,           \* a task panicked holding the storage mutexes
    transaction,        \* Conn.transaction of every connection
    pc,                 \* where the task of every connection stands
    req,                \* message: the request the connection handles, or handled last
    out,                \* the values written to the connection's socket since req was read
    events,             \* the queue the connection's last EXEC or DISCARD took over
    todo,               \* commit_transaction: the events its loop has not run yet
    produced,           \* the replies the handlers run by commit_transaction produced
    mailbox,            \* the oneshot channel of the connection's blocked BLPOP
    blk,                \* the key and the timeout of the connection's blocked BLPOP
    replica,            \* ReplicationInner.replica: the sockets of the replicas
    nread,              \* the number of requests every connection has read so far
    stream,             \* StorageInner.stream: key -> Stream, or Absent
    xread_blocked_task, \* Storage.xread_blocked_task: the registry of blocked XREADs
    rep_node,           \* run_replica: the replica instance fed by the first replica socket
    wire,               \* the bytes every client has sent that handle_task has not read yet
    codec,              \* serde_redis: a Value, its encoding and what the encoding decodes to
    rep                 \* an instance started with --replicaof: its handshake and run_replica

vars == <<data, lpop_blocked_task, poisoned, transaction, pc, req, out, events, todo,
          produced, mailbox, blk, replica, nread,
         stream, xread_blocked_task, rep_node, wire, codec, rep>>

\* The state of the server: what the handlers of the connections read and write.
server_vars == <<data, lpop_blocked_task, poisoned, transaction, pc, req, out, events, todo,
                 produced, mailbox, blk, replica, nread,
                 stream, xread_blocked_task, rep_node, wire>>

\* The state no handler of a connection touches.
detached == <<codec, rep>>

\* No Value is being encoded or decoded.
CodecIdle == [phase |-> "idle", value |-> [t |-> "none"], bytes |-> <<>>,
              decoded |-> [ok |-> FALSE, e |-> "none"]]

\* An instance that has not started: nothing sent to a master, nothing read from it.
RepIdle ==
    [master |-> FALSE, port |-> 0, lock |-> FALSE, pc |-> "idle", sent |-> <<>>,
     got |-> <<>>, socket |-> <<>>, replied |-> 0, closed |-> FALSE, buf |-> <<>>,
     offset |-> 0, frames |-> <<>>, applied |-> <<>>, acks |-> <<>>]

\* Transaction::None, Pending(events), Executing(results)
TxNone == [state |-> "None", events |-> <<>>, results |-> <<>>]

TxPending(evs) == [state |-> "Pending", events |-> evs, results |-> <<>>]

TxExecuting(results) == [state |-> "Executing", events |-> <<>>, results |-> results]

\* Transaction::start
start(tx) == TxPending(<<>>)

\* Transaction::commit: the queued events, and the state after
commit(tx) == [events |-> tx.events, tx |-> TxExecuting(<<>>)]

\* Transaction::finish: the recorded results, and the state after
finish(tx) == [results |-> tx.results, tx |-> TxNone]

\* An abort that leaves the transaction as it is.
abort_keeps_queue(tx) == tx

\* Transaction::abort
abort(tx) == TxNone

\* Only a running EXEC counts as a transaction.
in_transaction_only_executing(tx) == tx.state = "Executing"

\* Conn::in_transaction
in_transaction(tx) == tx.state \in {"Pending", "Executing"}

\* Conn::write_value: record the value while executing a transaction, write it to
\* the socket otherwise.
write_value(tx, o, value) ==
    IF tx.state = "Executing"
    THEN [tx |-> TxExecuting(Append(tx.results, value)), out |-> o]
    ELSE [tx |-> tx, out |-> Append(o, value)]

\* A handler's reply: written to the socket by the handlers that use stream.write,
\* handed to Conn::write_value by the others.
write_reply(tx, o, r) ==
    IF r.direct THEN [tx |-> tx, out |-> Append(o, r.reply)]
    ELSE write_value(tx, o, r.reply)

\* The new event replaces the queue instead of joining it.
add_to_transaction_replaces(tx, f) ==
    IF tx.state = "Pending" THEN TxPending(<<f>>) ELSE tx

\* Conn::add_to_transaction
add_to_transaction(tx, f) ==
    IF tx.state = "Pending" THEN TxPending(Append(tx.events, f)) ELSE tx

\* The request as the array it was received as.
FrameValue(f) ==
    Array(<<BulkString(f.cmd)>> \o [i \in 1..Len(f.args) |-> BulkString(f.args[i])])

\* The oneshot channels after the deliveries `sent`.
Deliver(mb, sent) ==
    [c \in DOMAIN mb |->
        IF \E i \in 1..Len(sent) : sent[i].conn = c
        THEN (CHOOSE x \in {sent[i] : i \in 1..Len(sent)} : x.conn = c).v
        ELSE mb[c]]

\* The receiving end of the connection's channel is dropped.
DropReceiver(tasks, c) ==
    [i \in 1..Len(tasks) |->
        IF tasks[i].conn = c THEN [tasks[i] EXCEPT !.open = FALSE] ELSE tasks[i]]

MetaCommands == {"MULTI", "EXEC", "DISCARD"}

\* ReplicationInner.id
ReplicationId == "8371b4fb1155b71f4a04d3e1bc3e18c4a990aeeb"

InitServer(cs) ==
    /\ data = [k \in Keys |-> Absent]
    /\ lpop_blocked_task = <<>>
    /\ poisoned = FALSE
    /\ transaction = [c \in cs |-> TxNone]
    /\ pc = [c \in cs |-> "read"]
    /\ req = [c \in cs |-> NoFrame]
    /\ out = [c \in cs |-> <<>>]
    /\ events = [c \in cs |-> <<>>]
    /\ todo = [c \in cs |-> <<>>]
    /\ produced = [c \in cs |-> <<>>]
    /\ mailbox = [c \in cs |-> NoValue]
    /\ blk = [c \in cs |-> [key |-> "", timeout |-> FALSE]]
    /\ replica = <<>>
    /\ nread = [c \in cs |-> 0]
    /\ stream = [k \in Keys |-> Absent]
    /\ xread_blocked_task = <<>>
    /\ rep_node = [data |-> [k \in Keys |-> Absent], lpop_blocked_task |-> <<>>,
                   pc |-> "read", exec_pos |-> 1, written |-> <<>>,
                   key |-> "", timeout |-> FALSE]
    /\ wire = [c \in cs |-> [buf |-> <<>>, sent |-> 0]]

InitOf(cs) == InitServer(cs) /\ codec = CodecIdle /\ rep = RepIdle

RECURSIVE SumOver(_, _)
SumOver(f, S) ==
    IF S = {} THEN 0
    ELSE LET x == CHOOSE y \in S : TRUE IN f[x] + SumOver(f, S \ {x})

Total(f) == SumOver(f, DOMAIN f)

\* handle_task reads the next request of connection c: max bounds the requests of a run.
Read(c, f, max) ==
    /\ pc[c] = "read"
    /\ Total(nread) < max
    /\ nread' = [nread EXCEPT ![c] = @ + 1]
    /\ req' = [req EXCEPT ![c] = f]

\* MULTI: handle_multi_command outside a transaction, the error of dispatch_command
\* inside one.
RecvMulti(c, max) ==
    /\ Read(c, Frame("MULTI", <<>>), max)
    /\ LET tx == transaction[c]
           w == IF in_transaction(tx)
                THEN write_value(tx, <<>>, SimpleError("ETRANS", "alreayd in transaction"))
                ELSE write_value(start(tx), <<>>, SimpleString("OK"))
       IN  /\ transaction' = [transaction EXCEPT ![c] = w.tx]
           /\ out' = [out EXCEPT ![c] = w.out]
    /\ UNCHANGED <<data, lpop_blocked_task, poisoned, pc, events, todo, produced,
                   mailbox, blk, replica>>
    /\ UNCHANGED <<stream, xread_blocked_task, rep_node, wire, detached>>

\* EXEC: handle_exec_command.  Inside a transaction Transaction::commit hands the
\* queued events to the loop of commit_transaction.
RecvExec(c, max) ==
    /\ Read(c, Frame("EXEC", <<>>), max)
    /\ IF in_transaction(transaction[c])
       THEN /\ events' = [events EXCEPT ![c] = commit(transaction[c]).events]
            /\ todo' = [todo EXCEPT ![c] = commit(transaction[c]).events]
            /\ produced' = [produced EXCEPT ![c] = <<>>]
            /\ transaction' = [transaction EXCEPT ![c] = commit(transaction[c]).tx]
            /\ pc' = [pc EXCEPT ![c] = "run"]
            /\ out' = [out EXCEPT ![c] = <<>>]
       ELSE /\ out' = [out EXCEPT ![c] =
                          <<SimpleError("ERR", "EXEC without MULTI")>>]
            /\ events' = [events EXCEPT ![c] = <<>>]
            /\ UNCHANGED <<todo, produced, transaction, pc>>
    /\ UNCHANGED <<data, lpop_blocked_task, poisoned, mailbox, blk, replica>>
    /\ UNCHANGED <<stream, xread_blocked_task, rep_node, wire, detached>>

\* DISCARD: handle_discard_command.
RecvDiscard(c, max) ==
    /\ Read(c, Frame("DISCARD", <<>>), max)
    /\ LET tx == transaction[c]
           w == IF in_transaction(tx)
                THEN write_value(abort(tx), <<>>, SimpleString("OK"))
                ELSE write_value(tx, <<>>, SimpleError("ERR", "DISCARD without MULTI"))
       IN  /\ transaction' = [transaction EXCEPT ![c] = w.tx]
           /\ out' = [out EXCEPT ![c] = w.out]
           /\ events' = [events EXCEPT ![c] =
                            IF in_transaction(tx) THEN tx.events ELSE <<>>]
    /\ UNCHANGED <<data, lpop_blocked_task, poisoned, pc, todo, produced,
                   mailbox, blk, replica>>
    /\ UNCHANGED <<stream, xread_blocked_task, rep_node, wire, detached>>

\* dispatch_command inside a transaction: any other command is queued.
RecvQueued(c, cmds, max) ==
    \E f \in cmds :
        /\ in_transaction(transaction[c])
        /\ Read(c, f, max)
        /\ LET w == write_value(add_to_transaction(transaction[c], f), <<>>,
                                SimpleString("QUEUED"))
           IN  /\ transaction' = [transaction EXCEPT ![c] = w.tx]
               /\ out' = [out EXCEPT ![c] = w.out]
        /\ UNCHANGED <<data, lpop_blocked_task, poisoned, pc, events, todo, produced,
                       mailbox, blk, replica>>
        /\ UNCHANGED <<stream, xread_blocked_task, rep_node, wire, detached>>

\* The effect on the shared storage of a handler that ended with result r.
StorageEffect(r) ==
    /\ data' = r.data
    /\ lpop_blocked_task' = r.tasks
    /\ mailbox' = Deliver(mailbox, r.sent)
    /\ poisoned' = (poisoned \/ r.status = "panic")

\* dispatch_command outside a transaction: dispatch_normal_command, then the arm of
\* handle_task for its DispatchResult.
RecvNormal(c, cmds, max) ==
    \E f \in cmds :
        /\ ~in_transaction(transaction[c])
        /\ Read(c, f, max)
        /\ LET r == dispatch_normal_command(data, lpop_blocked_task, poisoned,
                                            f.cmd, f.args)
               w == write_reply(transaction[c], <<>>, r)
           IN  /\ StorageEffect(r)
               /\ CASE r.status = "ok" ->
                        /\ out' = [out EXCEPT ![c] = w.out]
                        /\ pc' = [pc EXCEPT ![c] =
                                    IF f.cmd \in SyncedCommands THEN "sync" ELSE "read"]
                        /\ blk' = blk
                    [] r.status = "block" ->
                        /\ out' = [out EXCEPT ![c] = <<>>]
                        /\ pc' = [pc EXCEPT ![c] = "blpop_register"]
                        /\ blk' = [blk EXCEPT ![c] =
                                     [key |-> r.key, timeout |-> r.timeout]]
                    [] OTHER ->
                        /\ out' = [out EXCEPT ![c] = <<>>]
                        /\ pc' = [pc EXCEPT ![c] = "closed"]
                        /\ blk' = blk
        /\ UNCHANGED <<transaction, events, todo, produced, replica>>
        /\ UNCHANGED <<stream, xread_blocked_task, rep_node, wire, detached>>

\* One turn of the loop of commit_transaction: the next queued event is handed to
\* dispatch_normal_command; an Err ends the loop, EXEC and the connection.
ExecStep(c) ==
    /\ pc[c] = "run"
    /\ todo[c] # <<>>
    /\ LET f == Head(todo[c])
           r == dispatch_normal_command(data, lpop_blocked_task, poisoned,
                                        f.cmd, f.args)
           w == write_reply(transaction[c], out[c], r)
       IN  /\ StorageEffect(r)
           /\ CASE r.status = "ok" ->
                    /\ out' = [out EXCEPT ![c] = w.out]
                    /\ transaction' = [transaction EXCEPT ![c] = w.tx]
                    /\ produced' = [produced EXCEPT ![c] = Append(@, r.reply)]
                    /\ todo' = [todo EXCEPT ![c] = Tail(@)]
                    /\ UNCHANGED <<pc, blk>>
                [] r.status = "block" ->
                    /\ pc' = [pc EXCEPT ![c] = "blpop_register"]
                    /\ blk' = [blk EXCEPT ![c] = [key |-> r.key, timeout |-> r.timeout]]
                    /\ UNCHANGED <<out, transaction, produced, todo>>
                [] OTHER ->
                    /\ pc' = [pc EXCEPT ![c] = "closed"]
                    /\ UNCHANGED <<out, transaction, produced, todo, blk>>
    /\ UNCHANGED <<req, events, replica, nread>>
    /\ UNCHANGED <<stream, xread_blocked_task, rep_node, wire, detached>>

\* The end of commit_transaction and of handle_exec_command: Transaction::finish,
\* then the array of the recorded results is written.
ExecFinish(c) ==
    /\ pc[c] = "run"
    /\ todo[c] = <<>>
    /\ LET fin == finish(transaction[c])
           w == write_value(fin.tx, out[c], Array(fin.results))
       IN  /\ transaction' = [transaction EXCEPT ![c] = w.tx]
           /\ out' = [out EXCEPT ![c] = w.out]
    /\ pc' = [pc EXCEPT ![c] = "read"]
    /\ UNCHANGED <<data, lpop_blocked_task, poisoned, req, events, todo, produced,
                   mailbox, blk, replica, nread>>
    /\ UNCHANGED <<stream, xread_blocked_task, rep_node, wire, detached>>

\* handle_task after DispatchResult::ReplicaSync: Storage::replica_sync writes the
\* request to the socket of every replica.
ReplicaSync(c) ==
    /\ pc[c] = "sync"
    /\ out' = [x \in DOMAIN out |->
                 IF \E i \in 1..Len(replica) : replica[i] = x
                 THEN Append(out[x], FrameValue(req[c]))
                 ELSE out[x]]
    /\ pc' = [pc EXCEPT ![c] = "read"]
    /\ UNCHANGED <<data, lpop_blocked_task, poisoned, transaction, req, events, todo,
                   produced, mailbox, blk, replica, nread>>
    /\ UNCHANGED <<stream, xread_blocked_task, rep_node, wire, detached>>

\* PSYNC outside a transaction: handle_psync_command replies, then handle_task hands
\* the socket to Storage::set_replica and leaves its loop.
RecvPsync(c, max) ==
    /\ ~in_transaction(transaction[c])
    /\ Read(c, Frame("PSYNC", <<"?", "-1">>), max)
    /\ out' = [out EXCEPT ![c] = <<SimpleString("FULLRESYNC " \o ReplicationId \o " 0")>>]
    /\ replica' = Append(replica, c)
    /\ pc' = [pc EXCEPT ![c] = "replica"]
    /\ UNCHANGED <<data, lpop_blocked_task, poisoned, transaction, events, todo,
                   produced, mailbox, blk>>
    /\ UNCHANGED <<stream, xread_blocked_task, rep_node, wire, detached>>

\* handle_blpop_command after array_pop_front found nothing: Storage::lpop_add_block_task
\* appends the blocked task to the registry.
BlpopRegister(c) ==
    /\ pc[c] = "blpop_register"
    /\ IF poisoned
       THEN /\ pc' = [pc EXCEPT ![c] = "closed"]
            /\ UNCHANGED lpop_blocked_task
       ELSE /\ lpop_blocked_task' = Append(lpop_blocked_task, LpopBlockedTask(blk[c].key, c))
            /\ pc' = [pc EXCEPT ![c] = "blpop_wait"]
    /\ UNCHANGED <<data, poisoned, transaction, req, out, events, todo, produced,
                   mailbox, blk, replica, nread>>
    /\ UNCHANGED <<stream, xread_blocked_task, rep_node, wire, detached>>

\* The end of handle_blpop_command with reply `value`: Conn::write_value, then back
\* to the loop of commit_transaction or to the ReplicaSync arm of handle_task.
BlpopReply(c, value) ==
    LET w == write_value(transaction[c], out[c], value)
    IN  /\ transaction' = [transaction EXCEPT ![c] = w.tx]
        /\ out' = [out EXCEPT ![c] = w.out]
        /\ IF transaction[c].state = "Executing"
           THEN /\ pc' = [pc EXCEPT ![c] = "run"]
                /\ todo' = [todo EXCEPT ![c] = Tail(@)]
                /\ produced' = [produced EXCEPT ![c] = Append(@, value)]
           ELSE /\ pc' = [pc EXCEPT ![c] = "sync"]
                /\ UNCHANGED <<todo, produced>>

\* The blocked BLPOP receives the element a push sent it.
BlpopWake(c) ==
    /\ pc[c] = "blpop_wait"
    /\ mailbox[c] # NoValue
    /\ BlpopReply(c, Array(<<BulkString(blk[c].key), mailbox[c]>>))
    /\ mailbox' = [mailbox EXCEPT ![c] = NoValue]
    /\ UNCHANGED <<data, lpop_blocked_task, poisoned, req, events, blk, replica, nread>>
    /\ UNCHANGED <<stream, xread_blocked_task, rep_node, wire, detached>>

\* The timeout of the blocked BLPOP elapses first: the handler replies and returns,
\* its blocked task stays in the registry.
BlpopTimeout(c) ==
    /\ pc[c] = "blpop_wait"
    /\ blk[c].timeout
    /\ mailbox[c] = NoValue
    /\ BlpopReply(c, Array(<<BulkString(blk[c].key), BulkNull>>))
    /\ lpop_blocked_task' = DropReceiver(lpop_blocked_task, c)
    /\ UNCHANGED <<data, poisoned, req, events, mailbox, blk, replica, nread>>
    /\ UNCHANGED <<stream, xread_blocked_task, rep_node, wire, detached>>

\* What SystemTime::now() may read, in milliseconds.
Times == {1, 2}

\* handle_xadd_command.  The result: the streams and the registry of blocked XREADs
\* after it, the deliveries, the reply and how it ended.
handle_xadd_command(streams, xtasks, poisoned_, args, now) ==
    LET failed(status) == [stream |-> streams, xtasks |-> xtasks, sent |-> <<>>,
                           reply |-> NoValue, status |-> status]
    IN  IF Len(args) < 2 \/ ParseXaddId(args[2]) = NoValue THEN failed("err")
        ELSE LET values == [i \in 1..(Len(args) - 2) |-> BulkString(args[i + 2])]
             IN  IF values = <<>> \/ Len(values) % 2 # 0 THEN failed("err")
                 ELSE IF poisoned_ THEN failed("panic")
                 ELSE LET r == stream_add_value(streams, xtasks, args[1],
                                                ParseXaddId(args[2]), values, now)
                      IN  [stream |-> r.stream, xtasks |-> r.xtasks, sent |-> r.sent,
                           reply |-> IF r.res.ok
                                     THEN BulkString(FormatId(r.res.v.time_id,
                                                              r.res.v.seq_id))
                                     ELSE OpErrorMessage(r.res.e),
                           status |-> IF r.panic THEN "panic" ELSE "ok"]

\* XADD outside a transaction: dispatch_normal_command, handle_xadd_command.
RecvXadd(c, cmds, max) ==
    \E f \in cmds, now \in Times :
        /\ f.cmd = "XADD"
        /\ ~in_transaction(transaction[c])
        /\ Read(c, f, max)
        /\ LET r == handle_xadd_command(stream, xread_blocked_task, poisoned, f.args, now)
               w == write_value(transaction[c], <<>>, r.reply)
           IN  /\ stream' = r.stream
               /\ xread_blocked_task' = r.xtasks
               /\ mailbox' = Deliver(mailbox, r.sent)
               /\ poisoned' = (poisoned \/ r.status = "panic")
               /\ IF r.status = "ok"
                  THEN /\ out' = [out EXCEPT ![c] = w.out]
                       /\ pc' = [pc EXCEPT ![c] = "sync"]
                  ELSE /\ out' = [out EXCEPT ![c] = <<>>]
                       /\ pc' = [pc EXCEPT ![c] = "closed"]
        /\ UNCHANGED <<rep_node, wire, detached, data, lpop_blocked_task, transaction, events, todo, produced,
                       blk, replica>>

\* handle_xread_command: the stream names and the ids among the arguments that follow
\* "streams"; an id is what holds a '-'.
XreadNames(args) ==
    SelectSeq(SubSeq(args, 4, Len(args)), LAMBDA x : SplitOnceDash(x) = NoValue /\ x # "$")

XreadIds(args) ==
    SelectSeq(SubSeq(args, 4, Len(args)), LAMBDA x : SplitOnceDash(x) # NoValue \/ x = "$")

\* An id of XREAD: "$" is StreamId::Auto, what holds a '-' goes to parse_stream_id.
ParseXreadArg(x) == IF x = "$" THEN StreamIdAuto ELSE ParseXreadId(x)

\* XREAD block outside a transaction: handle_xread_command registers its blocked task
\* and waits for the channel.
RecvXreadBlock(c, cmds, max) ==
    \E f \in cmds :
        /\ f.cmd = "XREAD"
        /\ Len(f.args) >= 3
        /\ f.args[1] = "block"
        /\ ParseI64(f.args[2]) # -1
        /\ ~in_transaction(transaction[c])
        /\ Read(c, f, max)
        /\ LET names == XreadNames(f.args)
               ids == XreadIds(f.args)
               targets == [i \in 1..Len(names) |->
                            IF ParseXreadArg(ids[i]).kind = "auto"
                            THEN XreadBlockedTargetNew(names[i])
                            ELSE XreadBlockedTarget(names[i], ParseXreadArg(ids[i]).time_id,
                                                    ParseXreadArg(ids[i]).seq_id)]
           IN  IF \E i \in 1..Len(ids) : ParseXreadArg(ids[i]) = NoValue
               THEN /\ out' = [out EXCEPT ![c] = <<>>]
                    /\ pc' = [pc EXCEPT ![c] = "closed"]
                    /\ UNCHANGED <<xread_blocked_task, blk>>
               ELSE IF Len(ids) # Len(names)
               THEN /\ out' = [out EXCEPT ![c] = write_value(transaction[c], <<>>,
                            SimpleError("EARGS",
                                "stream name and stream keys have different count")).out]
                    /\ UNCHANGED <<pc, xread_blocked_task, blk>>
               ELSE IF poisoned
               THEN /\ out' = [out EXCEPT ![c] = <<>>]
                    /\ pc' = [pc EXCEPT ![c] = "closed"]
                    /\ UNCHANGED <<xread_blocked_task, blk>>
               ELSE /\ xread_blocked_task' =
                            Append(xread_blocked_task, XreadBlockedTask(targets, c))
                    /\ out' = [out EXCEPT ![c] = <<>>]
                    /\ pc' = [pc EXCEPT ![c] = "xread_wait"]
                    /\ blk' = [blk EXCEPT ![c] =
                                 [key |-> "", timeout |-> ParseI64(f.args[2]) > 0]]
        /\ UNCHANGED <<rep_node, wire, detached, data, lpop_blocked_task, poisoned, transaction, events, todo,
                       produced, mailbox, replica, stream>>

\* The blocked XREAD receives what an XADD sent it and replies one [key, [entry]]
\* array for each of the keys.
XreadWake(c) ==
    /\ pc[c] = "xread_wait"
    /\ mailbox[c] # NoValue
    /\ LET keys == mailbox[c].keys
           query_result == [i \in 1..Len(keys) |->
                              Array(<<BulkString(keys[i]), Array(<<mailbox[c].value>>)>>)]
           w == write_value(transaction[c], out[c], Array(query_result))
       IN  out' = [out EXCEPT ![c] = w.out]
    /\ mailbox' = [mailbox EXCEPT ![c] = NoValue]
    /\ pc' = [pc EXCEPT ![c] = "read"]
    /\ UNCHANGED <<rep_node, wire, detached, data, lpop_blocked_task, poisoned, transaction, req, events, todo,
                   produced, blk, replica, nread, stream, xread_blocked_task>>

\* The timeout of the blocked XREAD elapses first: the receiver is dropped, the null
\* array is replied, the blocked task stays in the registry.
XreadTimeout(c) ==
    /\ pc[c] = "xread_wait"
    /\ blk[c].timeout
    /\ mailbox[c] = NoValue
    /\ out' = [out EXCEPT ![c] = write_value(transaction[c], out[c], ArrayNull).out]
    /\ xread_blocked_task' = DropReceiver(xread_blocked_task, c)
    /\ pc' = [pc EXCEPT ![c] = "read"]
    /\ UNCHANGED <<rep_node, wire, detached, data, lpop_blocked_task, poisoned, transaction, req, events, todo,
                   produced, mailbox, blk, replica, nread, stream>>

\* The bound of XRANGE as handle_xrange_command parses it: auto is the open end.
ParseXrangeId(x, open) ==
    IF x = open THEN StreamIdAuto
    ELSE LET parts == SplitOnceDash(x)
         IN  IF parts = NoValue
             THEN (IF ParseI64(x) # -1 THEN StreamIdPartialAuto(ParseI64(x)) ELSE NoValue)
             ELSE IF ParseI64(parts[1]) # -1 /\ ParseI64(parts[2]) # -1
             THEN StreamIdValue(ParseI64(parts[1]), ParseI64(parts[2]))
             ELSE IF ParseI64(parts[1]) # -1 /\ parts[2] = "*"
             THEN StreamIdPartialAuto(ParseI64(parts[1]))
             ELSE NoValue

\* XRANGE outside a transaction: handle_xrange_command; the unwrap of an Err of
\* stream_get_range ends the task of the connection.
RecvXrange(c, cmds, max) ==
    \E f \in cmds :
        /\ f.cmd = "XRANGE"
        /\ ~in_transaction(transaction[c])
        /\ Read(c, f, max)
        /\ LET lo == IF Len(f.args) >= 2 THEN ParseXrangeId(f.args[2], "-") ELSE NoValue
               hi == IF Len(f.args) >= 3 THEN ParseXrangeId(f.args[3], "+") ELSE NoValue
           IN  IF lo = NoValue \/ hi = NoValue \/ poisoned
                    \/ ~stream_get_range(stream, f.args[1], lo, hi).ok
               THEN /\ out' = [out EXCEPT ![c] = <<>>]
                    /\ pc' = [pc EXCEPT ![c] = "closed"]
               ELSE /\ out' = [out EXCEPT ![c] = write_value(transaction[c], <<>>,
                            stream_get_range(stream, f.args[1], lo, hi).v).out]
                    /\ pc' = pc
        /\ UNCHANGED <<rep_node, wire, detached, data, lpop_blocked_task, poisoned, transaction, events, todo,
                       produced, mailbox, blk, replica, stream, xread_blocked_task>>

\* XREAD without block, outside a transaction: handle_xread_command asks
\* stream_get_range for every requested stream, from its id to the end; the unwrap of
\* an Err of stream_get_range ends the task of the connection.
RecvXread(c, cmds, max) ==
    \E f \in cmds :
        /\ f.cmd = "XREAD"
        /\ Len(f.args) >= 1
        /\ f.args[1] # "block"
        /\ ~in_transaction(transaction[c])
        /\ Read(c, f, max)
        /\ LET rest == SubSeq(f.args, 2, Len(f.args))
               names == SelectSeq(rest, LAMBDA x : SplitOnceDash(x) = NoValue)
               ids == SelectSeq(rest, LAMBDA x : SplitOnceDash(x) # NoValue)
               v(i) == stream_get_range(stream, names[i], ParseXreadArg(ids[i]),
                                        StreamIdAuto)
               query_result[i \in 0..Len(names)] ==
                   IF i = 0 THEN <<>>
                   ELSE IF v(i).v.a = <<>> THEN query_result[i - 1]
                   ELSE Append(query_result[i - 1],
                               Array(<<BulkString(names[i]), v(i).v>>))
           IN  IF \E i \in 1..Len(ids) : ParseXreadArg(ids[i]) = NoValue
               THEN /\ out' = [out EXCEPT ![c] = <<>>]
                    /\ pc' = [pc EXCEPT ![c] = "closed"]
               ELSE IF Len(ids) # Len(names)
               THEN /\ out' = [out EXCEPT ![c] = write_value(transaction[c], <<>>,
                            SimpleError("EARGS",
                                "stream name and stream keys have different count")).out]
                    /\ pc' = pc
               ELSE IF poisoned \/ \E i \in 1..Len(names) : ~v(i).ok
               THEN /\ out' = [out EXCEPT ![c] = <<>>]
                    /\ pc' = [pc EXCEPT ![c] = "closed"]
               ELSE /\ out' = [out EXCEPT ![c] = write_value(transaction[c], <<>>,
                            IF query_result[Len(names)] = <<>> THEN ArrayNull
                            ELSE Array(query_result[Len(names)])).out]
                    /\ pc' = pc
        /\ UNCHANGED <<rep_node, wire, detached, data, lpop_blocked_task, poisoned, transaction,
                       events, todo, produced, mailbox, blk, replica, stream,
                       xread_blocked_task>>

\* The request an array decodes to: dispatch_command pops the command name off it.
MessageOf(v) == Frame(v.a[1].s, [i \in 1..(Len(v.a) - 1) |-> v.a[i + 1].s])

\* The encoding of a request on the wire, cut where a read may end: the element
\* count of the array, then its elements.
ArrayHeader(n) == [t |-> "array_header", n |-> n]

to_vec(f) == <<ArrayHeader(Len(FrameValue(f).a))>> \o FrameValue(f).a

\* serde_redis::from_bytes::<Array> on what one read returned: the array at the start
\* of the bytes is decoded and whatever follows it is left alone; bytes that do not
\* start with an array, or that end before the array does, are an error.
from_bytes(bytes) ==
    IF bytes = <<>> \/ bytes[1].t # "array_header" THEN Err("SerdeError")
    ELSE IF Len(bytes) - 1 < bytes[1].n THEN Err("SerdeError")
    ELSE Ok(Array(SubSeq(bytes, 2, bytes[1].n + 1)))

\* A client writes a request to its socket without waiting for the reply to the one
\* before.
ClientSend(c, cmds, max) ==
    \E f \in cmds :
        /\ pc[c] # "closed"
        /\ SumOver([x \in DOMAIN wire |-> wire[x].sent], DOMAIN wire) < max
        /\ wire' = [wire EXCEPT ![c] = [buf |-> @.buf \o to_vec(f), sent |-> @.sent + 1]]
        /\ UNCHANGED <<data, lpop_blocked_task, poisoned, transaction, pc, req, out,
                       events, todo, produced, mailbox, blk, replica, nread, stream,
                       xread_blocked_task, rep_node, detached>>

\* One turn of the loop of handle_task on a socket that holds unread bytes: read
\* returns the first n of them, from_bytes decodes one array from what was read, and
\* the request goes to dispatch_normal_command; a decoding error ends handle_task.
WireRead(c) ==
    \E n \in 1..Len(wire[c].buf) :
        /\ pc[c] = "read"
        /\ ~in_transaction(transaction[c])
        /\ wire' = [wire EXCEPT ![c].buf = SubSeq(@, n + 1, Len(@))]
        /\ LET message == from_bytes(SubSeq(wire[c].buf, 1, n))
           IN  IF ~message.ok
               THEN /\ pc' = [pc EXCEPT ![c] = "closed"]
                    /\ UNCHANGED <<data, lpop_blocked_task, poisoned, req, out, mailbox,
                                   blk, nread>>
               ELSE LET f == MessageOf(message.v)
                        r == dispatch_normal_command(data, lpop_blocked_task, poisoned,
                                                     f.cmd, f.args)
                        w == write_reply(transaction[c], <<>>, r)
                    IN  /\ req' = [req EXCEPT ![c] = f]
                        /\ nread' = [nread EXCEPT ![c] = @ + 1]
                        /\ StorageEffect(r)
                        /\ CASE r.status = "ok" ->
                                /\ out' = [out EXCEPT ![c] = w.out]
                                /\ pc' = [pc EXCEPT ![c] =
                                            IF f.cmd \in SyncedCommands THEN "sync"
                                            ELSE "read"]
                                /\ blk' = blk
                             [] r.status = "block" ->
                                /\ out' = [out EXCEPT ![c] = <<>>]
                                /\ pc' = [pc EXCEPT ![c] = "blpop_register"]
                                /\ blk' = [blk EXCEPT ![c] =
                                             [key |-> r.key, timeout |-> r.timeout]]
                             [] OTHER ->
                                /\ out' = [out EXCEPT ![c] = <<>>]
                                /\ pc' = [pc EXCEPT ![c] = "closed"]
                                /\ blk' = blk
        /\ UNCHANGED <<transaction, events, todo, produced, replica, stream,
                       xread_blocked_task, rep_node, detached>>

\* The id run_replica gives the connection to the master.
RepMasterConn == 30000

\* One turn of the inner loop of run_replica on the instance behind the first replica
\* socket: the next propagated array is decoded and handed to dispatch_command on a
\* Conn that wraps the connection to the master; the DispatchResult is ignored.  A
\* BLPOP that finds nothing registers its blocked task and waits; an Err or a panic
\* ends run_replica.
ReplicaApply ==
    /\ replica # <<>>
    /\ rep_node.pc = "read"
    /\ rep_node.exec_pos < Len(out[replica[1]])
    /\ LET f == MessageOf(out[replica[1]][rep_node.exec_pos + 1])
           r == dispatch_normal_command(rep_node.data, rep_node.lpop_blocked_task,
                                        FALSE, f.cmd, f.args)
       IN  rep_node' =
             CASE r.status = "ok" ->
                    [rep_node EXCEPT !.data = r.data,
                                     !.lpop_blocked_task = r.tasks,
                                     !.written = Append(@, r.reply),
                                     !.exec_pos = @ + 1]
               [] r.status = "block" ->
                    [rep_node EXCEPT !.data = r.data,
                                     !.lpop_blocked_task =
                                         Append(r.tasks, LpopBlockedTask(r.key, RepMasterConn)),
                                     !.pc = "blpop_wait",
                                     !.key = r.key,
                                     !.timeout = r.timeout]
               [] OTHER -> [rep_node EXCEPT !.pc = "closed"]
    /\ UNCHANGED <<data, lpop_blocked_task, poisoned, transaction, pc, req, out, events,
                   todo, produced, mailbox, blk, replica, nread, stream,
                   xread_blocked_task, wire, detached>>

\* The timeout of a BLPOP that run_replica is applying elapses: the handler writes the
\* reply, its blocked task stays in the registry of the replica, and run_replica goes on.
ReplicaBlpopTimeout ==
    /\ rep_node.pc = "blpop_wait"
    /\ rep_node.timeout
    /\ rep_node' =
         [rep_node EXCEPT !.lpop_blocked_task = DropReceiver(@, RepMasterConn),
                          !.written = Append(@, Array(<<BulkString(rep_node.key), BulkNull>>)),
                          !.pc = "read",
                          !.exec_pos = @ + 1]
    /\ UNCHANGED <<data, lpop_blocked_task, poisoned, transaction, pc, req, out, events,
                   todo, produced, mailbox, blk, replica, nread, stream,
                   xread_blocked_task, wire, detached>>

(***************************************************************************)
(* Transactions: two clients, one key.                                     *)
(***************************************************************************)
TxCmds ==
    { Frame("SET", <<"a", "1">>), Frame("SET", <<"a", "x">>), Frame("INCR", <<"a">>),
      Frame("GET", <<"a">>), Frame("GET", <<>>), Frame("FOO", <<>>) }

Init == InitOf(Conns)

Next ==
    \E c \in Conns :
        \/ RecvMulti(c, MaxCmds)
        \/ RecvExec(c, MaxCmds)
        \/ RecvDiscard(c, MaxCmds)
        \/ RecvQueued(c, TxCmds, MaxCmds)
        \/ RecvNormal(c, TxCmds, MaxCmds)
        \/ RecvPsync(c, MaxCmds)
        \/ ExecStep(c)
        \/ ExecFinish(c)
        \/ ReplicaSync(c)

Spec == Init /\ [][Next]_vars

(***************************************************************************)
(* Blocking pops: three clients, pushes and BLPOPs on one list.            *)
(***************************************************************************)
BlockCmds ==
    { Frame("BLPOP", <<"q", "0">>), Frame("BLPOP", <<"q", "1">>),
      Frame("RPUSH", <<"q", "x", "y">>), Frame("LPUSH", <<"q", "z">>),
      Frame("SET", <<"q", "x">>) }

InitBlock == InitOf(BlockConns)

NextBlock ==
    \E c \in BlockConns :
        \/ RecvNormal(c, BlockCmds, MaxBlockCmds)
        \/ BlpopRegister(c)
        \/ BlpopWake(c)
        \/ BlpopTimeout(c)
        \/ ReplicaSync(c)

SpecBlock == InitBlock /\ [][NextBlock]_vars

(***************************************************************************)
(* Streams: two clients adding to, reading from and blocking on one stream. *)
(***************************************************************************)
StreamConns == {1, 2}

StreamCmds ==
    { Frame("XADD", <<"s", id, "f", "v">>) : id \in {"0-0", "0-1", "1-1", "1-*", "2-0", "*"} }
    \cup { Frame("XREAD", <<"block", "0", "streams", "s", "0-0">>),
           Frame("XREAD", <<"block", "1", "streams", "s", "1-1">>),
           Frame("XRANGE", <<"s", "-", "+">>) }

InitStream == InitOf(StreamConns)

NextStream ==
    \E c \in StreamConns :
        \/ RecvXadd(c, StreamCmds, MaxStreamCmds)
        \/ RecvXreadBlock(c, StreamCmds, MaxStreamCmds)
        \/ RecvXrange(c, StreamCmds, MaxStreamCmds)
        \/ XreadWake(c)
        \/ XreadTimeout(c)
        \/ ReplicaSync(c)

SpecStream == InitStream /\ [][NextStream]_vars

(***************************************************************************)
(* Replication on the master: one replica and two writing clients.         *)
(***************************************************************************)
ReplConns == {1, 2, 3}

ReplCmds ==
    { Frame("SET", <<"a", "1">>), Frame("SET", <<"a", "x">>), Frame("GET", <<"a">>) }

InitRepl == InitOf(ReplConns)

NextRepl ==
    \E c \in ReplConns :
        \/ RecvNormal(c, ReplCmds, MaxReplCmds)
        \/ RecvPsync(c, MaxReplCmds)
        \/ ReplicaSync(c)

SpecRepl == InitRepl /\ [][NextRepl]_vars

(***************************************************************************)
(* A master with two clients and the replica instance behind its replica   *)
(* socket.                                                                 *)
(***************************************************************************)
SyncConns == {1, 2, 3}

SyncCmds ==
    { Frame("BLPOP", <<"q", "0">>), Frame("BLPOP", <<"q", "1">>),
      Frame("RPUSH", <<"q", "x">>) }

InitSync == InitOf(SyncConns)

NextSync ==
    \/ \E c \in SyncConns :
        \/ RecvNormal(c, SyncCmds, MaxSyncCmds)
        \/ RecvPsync(c, MaxSyncCmds)
        \/ BlpopRegister(c)
        \/ BlpopWake(c)
        \/ BlpopTimeout(c)
        \/ ReplicaSync(c)
    \/ ReplicaApply
    \/ ReplicaBlpopTimeout

SpecSync == InitSync /\ [][NextSync]_vars

\* run_replica is a spawned task of its own: it is scheduled whenever it can take a step.
FairSpecSync == SpecSync /\ WF_vars(ReplicaApply) /\ WF_vars(ReplicaBlpopTimeout)

(***************************************************************************)
(* Pipelining: two clients that write requests without waiting, and reads  *)
(* that return any number of the unread bytes.                             *)
(***************************************************************************)
WireConns == {1, 2}

WireCmds == { Frame("SET", <<"a", "1">>), Frame("GET", <<"a">>), Frame("INCR", <<"a">>) }

InitWire == InitOf(WireConns)

NextWire ==
    \E c \in WireConns :
        \/ ClientSend(c, WireCmds, MaxWireCmds)
        \/ WireRead(c)
        \/ ReplicaSync(c)

SpecWire == InitWire /\ [][NextWire]_vars

(***************************************************************************)
(* Range queries: one client adding to a stream and reading ranges of it.  *)
(***************************************************************************)
RangeConns == {1}

RangeCmds ==
    { Frame("XADD", <<"s", id, "f", "v">>) : id \in {"0-1", "1-0", "1-1", "2-0"} }
    \cup { Frame("XRANGE", <<"s", lo, hi>>) : lo \in {"-", "0-1", "1-1"},
                                              hi \in {"+", "1-1", "2-0"} }
    \cup { Frame("XREAD", <<"streams", "s", id>>) : id \in {"0-0", "0-1", "1-1"} }

InitRange == InitOf(RangeConns)

NextRange ==
    \E c \in RangeConns :
        \/ RecvXadd(c, RangeCmds, MaxRangeCmds)
        \/ RecvXrange(c, RangeCmds, MaxRangeCmds)
        \/ RecvXread(c, RangeCmds, MaxRangeCmds)
        \/ ReplicaSync(c)

SpecRange == InitRange /\ [][NextRange]_vars

(***************************************************************************)
(* The keyspace: one client using one key as a string, an integer, a list  *)
(* and a stream, while the expiration of the key runs out.                 *)
(***************************************************************************)
\* TYPE outside a transaction: handle_type_command.
RecvType(c, cmds, max) ==
    \E f \in cmds :
        /\ f.cmd = "TYPE"
        /\ ~in_transaction(transaction[c])
        /\ Read(c, f, max)
        /\ IF f.args = <<>> \/ poisoned
           THEN /\ out' = [out EXCEPT ![c] = <<>>]
                /\ pc' = [pc EXCEPT ![c] = "closed"]
           ELSE LET r == get_value_type(data, stream, f.args[1])
                    name == IF r.ok THEN r.v ELSE "none"
                IN  /\ out' = [out EXCEPT ![c] =
                                 write_value(transaction[c], <<>>, SimpleString(name)).out]
                    /\ pc' = pc
        /\ UNCHANGED <<rep_node, wire, detached, data, lpop_blocked_task, poisoned, transaction,
                       events, todo, produced, mailbox, blk, replica, stream,
                       xread_blocked_task>>

\* LRANGE outside a transaction: handle_lrange_command.  The build of the server
\* either checks the arithmetic of Storage::lrange for overflow or lets it wrap.
RecvLrange(c, cmds, max) ==
    \E f \in cmds, overflow_checks \in BOOLEAN :
        /\ f.cmd = "LRANGE"
        /\ ~in_transaction(transaction[c])
        /\ Read(c, f, max)
        /\ IF Len(f.args) < 3 \/ ~ParseI32(f.args[2]).ok
                \/ ~ParseI32(f.args[3]).ok \/ poisoned
           THEN /\ out' = [out EXCEPT ![c] = <<>>]
                /\ pc' = [pc EXCEPT ![c] = "closed"]
                /\ poisoned' = poisoned
           ELSE LET r == lrange(data, f.args[1], ParseI32(f.args[2]).v,
                                ParseI32(f.args[3]).v, overflow_checks)
                IN  IF r.panic
                    THEN /\ out' = [out EXCEPT ![c] = <<>>]
                         /\ pc' = [pc EXCEPT ![c] = "closed"]
                         /\ poisoned' = TRUE
                    ELSE /\ out' = [out EXCEPT ![c] =
                                      write_value(transaction[c], <<>>, r.res.v).out]
                         /\ pc' = pc
                         /\ poisoned' = poisoned
        /\ UNCHANGED <<rep_node, wire, detached, data, lpop_blocked_task, transaction, events, todo,
                       produced, mailbox, blk, replica, stream, xread_blocked_task>>

\* The clock passes the expiration of the cell of key k.
Expire(k) ==
    /\ data[k] # Absent
    /\ data[k].exp = "live"
    /\ data' = [data EXCEPT ![k].exp = "expired"]
    /\ UNCHANGED <<rep_node, wire, detached, lpop_blocked_task, poisoned, transaction, pc, req, out,
                   events, todo, produced, mailbox, blk, replica, nread, stream,
                   xread_blocked_task>>

KeyConns == {1}

KeyNormalCmds ==
    { Frame("SET", <<"a", "1">>), Frame("SET", <<"a", "x">>),
      Frame("SET", <<"a", "1", "px", "1">>), Frame("SET", <<"a", "x", "px", "1">>),
      Frame("GET", <<"a">>), Frame("INCR", <<"a">>),
      Frame("RPUSH", <<"a", "x", "y">>), Frame("LPUSH", <<"a", "z">>),
      Frame("LPOP", <<"a">>), Frame("LPOP", <<"a", "2">>), Frame("LLEN", <<"a">>),
      Frame("FLUSHALL", <<>>) }

KeyCmds ==
    KeyNormalCmds
    \cup { Frame("XADD", <<"a", "1-1", "f", "v">>), Frame("TYPE", <<"a">>),
           Frame("LRANGE", <<"a", "0", "-1">>) }

InitKeys == InitOf(KeyConns)

NextKeys ==
    \/ \E c \in KeyConns :
        \/ RecvNormal(c, KeyNormalCmds, MaxKeyCmds)
        \/ RecvXadd(c, KeyCmds, MaxKeyCmds)
        \/ RecvType(c, KeyCmds, MaxKeyCmds)
        \/ RecvLrange(c, KeyCmds, MaxKeyCmds)
        \/ ReplicaSync(c)
    \/ \E k \in Keys : Expire(k)

SpecKeys == InitKeys /\ [][NextKeys]_vars

(***************************************************************************)
(* List ranges: one client building a list and reading ranges of it with   *)
(* every pair of signed indices around its length.                         *)
(***************************************************************************)
LrangeConns == {1}

LrangeIndices == {"-4", "-3", "-2", "-1", "0", "1", "2", "3"}

LrangeCmds ==
    { Frame("RPUSH", <<"a", "x">>), Frame("RPUSH", <<"a", "y", "z">>) }
    \cup { Frame("LRANGE", <<"a", from, to>>) : from \in LrangeIndices, to \in LrangeIndices }

InitLrange == InitOf(LrangeConns)

NextLrange ==
    \E c \in LrangeConns :
        \/ RecvNormal(c, { f \in LrangeCmds : f.cmd = "RPUSH" }, MaxLrangeCmds)
        \/ RecvLrange(c, LrangeCmds, MaxLrangeCmds)
        \/ ReplicaSync(c)

SpecLrange == InitLrange /\ [][NextLrange]_vars

(***************************************************************************)
(* Properties of the transaction state machine.                            *)
(***************************************************************************)

\* The step is one in which handle_task reads a request of connection c.
Reads(c) == nread'[c] = nread[c] + 1

\* The step leaves the keyspace, the registry of blocked tasks and their channels alone.
StorageUntouched ==
    /\ data' = data
    /\ lpop_blocked_task' = lpop_blocked_task
    /\ mailbox' = mailbox

\* The step writes to no socket but that of connection c.
OnlyWritesTo(c) == \A x \in DOMAIN out \ {c} : out'[x] = out[x]

\* C1: once the EXEC of a non-empty transaction has ended, the connection has got
\* exactly one array, whose i-th element is the reply of the i-th queued command,
\* and is back in state None.
C1_ExecRepliesInOrder ==
    \A c \in DOMAIN pc :
        (req[c].cmd = "EXEC" /\ events[c] # <<>> /\ pc[c] \in {"read", "closed"})
            => /\ pc[c] = "read"
               /\ transaction[c] = TxNone
               /\ Len(produced[c]) = Len(events[c])
               /\ out[c] = <<Array(produced[c])>>

\* C2: while EXEC runs the queued commands nothing is written to the socket of the
\* connection: the replies are only recorded.
C2_NoReplyWhileExecuting ==
    \A c \in DOMAIN pc : transaction[c].state = "Executing" => out[c] = <<>>

\* C3: MULTI in state None replies +OK and enters Pending with an empty queue; any
\* command but MULTI, EXEC and DISCARD read in state Pending joins the end of the
\* queue and is answered +QUEUED, and the step changes neither the keyspace, nor the
\* registry of blocked tasks, nor what has been written to the replicas.
C3_QueuedCommandsHaveNoEffect ==
    [][\A c \in DOMAIN pc :
        /\ (Reads(c) /\ req'[c].cmd = "MULTI" /\ transaction[c].state = "None")
            => /\ transaction'[c] = TxPending(<<>>)
               /\ out'[c] = <<SimpleString("OK")>>
        /\ (Reads(c) /\ req'[c].cmd \notin MetaCommands
                     /\ transaction[c].state = "Pending")
            => /\ transaction'[c] = TxPending(Append(transaction[c].events, req'[c]))
               /\ out'[c] = <<SimpleString("QUEUED")>>
               /\ pc'[c] = "read"
               /\ StorageUntouched
               /\ OnlyWritesTo(c)]_vars

\* A second command has been queued while a replica is attached.
C3_Witness ==
    \E c \in DOMAIN pc :
        /\ transaction[c].state = "Pending"
        /\ Len(transaction[c].events) = 2
        /\ req[c] = transaction[c].events[2]
        /\ out[c] = <<SimpleString("QUEUED")>>
        /\ replica # <<>>

\* C4: DISCARD in state Pending replies +OK, returns to state None and drops the
\* queue: nothing of it is handed to the executing loop and the step touches
\* neither the keyspace nor the blocked tasks.
C4_DiscardDropsQueue ==
    [][\A c \in DOMAIN pc :
        (Reads(c) /\ req'[c].cmd = "DISCARD" /\ transaction[c].state = "Pending")
            => /\ transaction'[c] = TxNone
               /\ out'[c] = <<SimpleString("OK")>>
               /\ pc'[c] = "read"
               /\ todo'[c] = <<>>
               /\ StorageUntouched
               /\ OnlyWritesTo(c)]_vars

\* A DISCARD has dropped a queue that held a SET, and the key is still absent.
C4_Witness ==
    \E c \in DOMAIN pc :
        /\ req[c].cmd = "DISCARD"
        /\ \E i \in 1..Len(events[c]) : events[c][i].cmd = "SET"
        /\ transaction[c] = TxNone
        /\ out[c] = <<SimpleString("OK")>>
        /\ data["a"] = Absent

\* C5: a queued command that fails while EXEC runs does not end EXEC: when EXEC is
\* over the connection is open, in state None, and has got the array of results.
C5_FailedCommandIsRecorded ==
    \A c \in DOMAIN pc :
        (req[c].cmd = "EXEC" /\ events[c] # <<>> /\ pc[c] \in {"read", "closed"})
            => /\ pc[c] = "read"
               /\ transaction[c] = TxNone
               /\ out[c] # <<>>
               /\ out[c][Len(out[c])].t = "array"

\* C6: a meta-command in the wrong state is answered with an error and changes
\* nothing: MULTI in state Pending keeps the queue, EXEC in state None replies
\* 'EXEC without MULTI', DISCARD in state None replies an error.
C6_MisplacedMetaCommandRejected ==
    [][\A c \in DOMAIN pc :
        LET Rejected == /\ Len(out'[c]) = 1
                        /\ out'[c][1].t = "error"
                        /\ transaction'[c] = transaction[c]
                        /\ pc'[c] = "read"
                        /\ todo'[c] = todo[c]
                        /\ StorageUntouched
                        /\ OnlyWritesTo(c)
        IN  /\ (Reads(c) /\ req'[c].cmd = "MULTI" /\ transaction[c].state = "Pending")
                => Rejected
            /\ (Reads(c) /\ req'[c].cmd = "EXEC" /\ transaction[c].state = "None")
                => /\ Rejected
                   /\ out'[c] = <<SimpleError("ERR", "EXEC without MULTI")>>
            /\ (Reads(c) /\ req'[c].cmd = "DISCARD" /\ transaction[c].state = "None")
                => Rejected]_vars

\* One connection has had its MULTI rejected in state Pending with a command in the
\* queue, another its EXEC in state None.
C6_Witness ==
    \E c1, c2 \in DOMAIN pc :
        /\ req[c1].cmd = "MULTI"
        /\ transaction[c1].state = "Pending"
        /\ transaction[c1].events # <<>>
        /\ out[c1] = <<SimpleError("ETRANS", "alreayd in transaction")>>
        /\ req[c2].cmd = "EXEC"
        /\ transaction[c2] = TxNone
        /\ out[c2] = <<SimpleError("ERR", "EXEC without MULTI")>>

\* C7: between the first and the last queued command of a running EXEC no step of
\* another connection changes the keyspace.
C7_ExecIsAtomic ==
    [][\A c \in DOMAIN pc :
        (/\ pc[c] = "run"
         /\ produced[c] # <<>>
         /\ todo[c] # <<>>
         /\ todo'[c] = todo[c]
         /\ pc'[c] = pc[c])
            => data' = data]_vars

(***************************************************************************)
(* Properties of the blocking pops.                                        *)
(***************************************************************************)

\* The elements of the list stored at the key: none when the key is absent or holds
\* another type.
StoredList(d, key) ==
    IF d[key] # Absent /\ d[key].value.t = "array" THEN d[key].value.a ELSE <<>>

\* The blocked tasks registered for the key, in the order of the registry.
WaitersOf(tasks, key) == SelectSeq(tasks, LAMBDA t : t.key = key)

\* Those of them whose BLPOP is still blocked: the receiver of the channel exists.
BlockedOn(tasks, key) == SelectSeq(tasks, LAMBDA t : t.key = key /\ t.open)

\* The step is one in which connection p reads a push with a key.
Pushes(p) ==
    /\ Reads(p)
    /\ req'[p].cmd \in {"RPUSH", "LPUSH"}
    /\ Len(req'[p].args) >= 1

\* C8: no blocked BLPOP is registered for a key whose stored list has an element.
C8_NoWaiterOnNonEmptyList ==
    \A i \in 1..Len(lpop_blocked_task) :
        (lpop_blocked_task[i].open /\ mailbox[lpop_blocked_task[i].conn] = NoValue)
            => StoredList(data, lpop_blocked_task[i].key) = <<>>

\* C9: a push hands its elements to the BLPOPs blocked on the key in the order they
\* registered: its i-th element goes to the i-th BLPOP still blocked, and a task
\* gets an element only when all tasks registered before it have left the registry.
C9_WaitersServedInOrder ==
    [][\A p \in DOMAIN pc :
        Pushes(p) =>
            LET key == req'[p].args[1]
                elems == Tail(req'[p].args)
                ws == WaitersOf(lpop_blocked_task, key)
                blocked == BlockedOn(lpop_blocked_task, key)
            IN  /\ \A i \in 1..Len(blocked) :
                        i <= Len(elems)
                            => mailbox'[blocked[i].conn] = SimpleString(elems[i])
                /\ \A i \in 1..Len(ws) :
                        mailbox'[ws[i].conn] # mailbox[ws[i].conn]
                            => Len(WaitersOf(lpop_blocked_task', key)) <= Len(ws) - i]_vars

\* C10: of the n elements of a push that is carried out, the first min(k, n) go to
\* the k BLPOPs blocked on the key, one each, and exactly the others are stored.
C10_PushedElementsInOnePlace ==
    [][\A p \in DOMAIN pc :
        (Pushes(p) /\ (~StorageUntouched \/ (out'[p] # <<>> /\ out'[p][1].t = "integer")))
            =>
            LET key == req'[p].args[1]
                elems == Tail(req'[p].args)
                ws == BlockedOn(lpop_blocked_task, key)
                m == Min(Len(ws), Len(elems))
                rest == [i \in 1..(Len(elems) - m) |-> SimpleString(elems[m + i])]
            IN  /\ \A i \in 1..m : mailbox'[ws[i].conn] = SimpleString(elems[i])
                /\ Len(BlockedOn(lpop_blocked_task', key)) = Len(ws) - m
                /\ StoredList(data', key) =
                        IF req'[p].cmd = "LPUSH"
                        THEN Reverse(rest) \o StoredList(data, key)
                        ELSE StoredList(data, key) \o rest]_vars

\* C11: the integer a push replies is the length of the list stored after it plus
\* the number of its elements that went to blocked tasks; when the key held no
\* element before the push it is the number of elements pushed.
C11_PushRepliesPushedCount ==
    [][\A p \in DOMAIN pc :
        (Pushes(p) /\ out'[p] # <<>> /\ out'[p][1].t = "integer") =>
            LET key == req'[p].args[1]
                elems == Tail(req'[p].args)
                delivered == Len(WaitersOf(lpop_blocked_task, key))
                                - Len(WaitersOf(lpop_blocked_task', key))
            IN  /\ out'[p] = <<Integer(Len(StoredList(data', key)) + delivered)>>
                /\ StoredList(data, key) = <<>>
                        => out'[p] = <<Integer(Len(elems))>>]_vars

\* RPUSH q x y met one blocked BLPOP: x went to it, y is stored, the reply is 2.
C11_Witness ==
    \E p, w \in DOMAIN pc :
        /\ req[p] = Frame("RPUSH", <<"q", "x", "y">>)
        /\ out[p] = <<Integer(2)>>
        /\ mailbox[w] = SimpleString("x")
        /\ StoredList(data, "q") = <<SimpleString("y")>>

\* C12: a push that meets a blocked task whose receiver is gone is carried out all
\* the same: it replies to its client, its connection stays open, and the storage
\* stays usable for the commands that follow.
C12_DeadWaiterDoesNotBlock ==
    [][\A p \in DOMAIN pc :
        (/\ Pushes(p)
         /\ ~poisoned
         /\ \E i \in 1..Len(lpop_blocked_task) :
                /\ lpop_blocked_task[i].key = req'[p].args[1]
                /\ ~lpop_blocked_task[i].open)
            => /\ out'[p] # <<>>
               /\ pc'[p] # "closed"
               /\ ~poisoned']_vars

\* C13: what BLPOP replies is the array [key, element] when it got an element, be
\* it from the stored list or from a later push, and the null array when it timed
\* out (an error reply aside).
C13_BlpopReplyShape ==
    \A c \in DOMAIN pc :
        (req[c].cmd = "BLPOP" /\ out[c] # <<>> /\ out[c][1].t # "error")
            => \/ out[c] = <<ArrayNull>>
               \/ /\ Len(out[c]) = 1
                  /\ out[c][1].t = "array"
                  /\ Len(out[c][1].a) = 2
                  /\ out[c][1].a[1] = BulkString(req[c].args[1])
                  /\ out[c][1].a[2].t \in {"simple", "bulk"}

(***************************************************************************)
(* Properties of the streams.                                              *)
(***************************************************************************)

\* The ids of the entries of the stream at the key, as <<time, seq>> pairs.
StreamIds(streams, key) ==
    IF streams[key] = Absent THEN {}
    ELSE UNION { { <<t, q>> : q \in DOMAIN streams[key].entries[t].data } :
                    t \in DOMAIN streams[key].entries }

\* The order of stream ids: by time, then by sequence number.
IdLess(a, b) == a[1] < b[1] \/ (a[1] = b[1] /\ a[2] < b[2])

\* C14: XREAD BLOCK registers a blocked task and waits only when the stream holds no
\* entry after the id it was given; when it holds one, XREAD replies at once and
\* registers nothing.
C14_XreadBlocksOnlyWithoutData ==
    [][\A c \in DOMAIN pc :
        (Reads(c) /\ req'[c].cmd = "XREAD" /\ ~poisoned) =>
            LET key == req'[c].args[4]
                given == SplitOnceDash(req'[c].args[5])
                after == <<ParseI64(given[1]), ParseI64(given[2])>>
                ready == \E id \in StreamIds(stream, key) : IdLess(after, id)
            IN  /\ ready => /\ out'[c] # <<>>
                            /\ pc'[c] = "read"
                            /\ xread_blocked_task' = xread_blocked_task
                /\ ~ready => /\ pc'[c] = "xread_wait"
                             /\ Len(xread_blocked_task') = Len(xread_blocked_task) + 1
      ]_vars

\* The ids in ascending order.
RECURSIVE AscendingIds(_)
AscendingIds(S) ==
    IF S = {} THEN <<>>
    ELSE LET least == CHOOSE x \in S : \A y \in S \ {x} : IdLess(x, y)
         IN  <<least>> \o AscendingIds(S \ {least})

\* C20: an XADD that succeeds adds exactly one id, greater than every id the stream
\* held, and replies it; an XADD that fails adds none; the top time id of a stream
\* never decreases; XRANGE key - + lists every entry, in ascending order of id.
C20_StreamIdsIncrease ==
    [][/\ \A k \in Keys :
            stream[k] # Absent
                => stream'[k].last_entry_time_id >= stream[k].last_entry_time_id
       /\ \A c \in DOMAIN pc :
            /\ (Reads(c) /\ req'[c].cmd = "XADD" /\ out'[c] # <<>>) =>
                LET key == req'[c].args[1]
                    old == StreamIds(stream, key)
                    new == StreamIds(stream', key)
                IN  IF out'[c][1].t = "error" THEN new = old
                    ELSE \E id \in new \ old :
                            /\ new = old \cup {id}
                            /\ \A o \in old : IdLess(o, id)
                            /\ out'[c] = <<BulkString(FormatId(id[1], id[2]))>>
            /\ (Reads(c) /\ req'[c].cmd = "XRANGE" /\ out'[c] # <<>>) =>
                LET ids == AscendingIds(StreamIds(stream, req'[c].args[1]))
                    listed == out'[c][1].a
                IN  /\ Len(listed) = Len(ids)
                    /\ \A i \in 1..Len(ids) :
                            listed[i].a[1] = SimpleString(FormatId(ids[i][1], ids[i][2]))
      ]_vars

\* XRANGE s - + has listed two entries of the stream, the second added after the
\* first.
C20_Witness ==
    \E c \in DOMAIN pc :
        /\ req[c].cmd = "XRANGE"
        /\ out[c] # <<>>
        /\ Len(out[c][1].a) = 2
        /\ Cardinality(StreamIds(stream, "s")) = 2

(***************************************************************************)
(* Properties of replication.                                              *)
(***************************************************************************)
\* The cell a SET request leaves in the keyspace.
CellOfSet(f) == handle_set_command(data, <<>>, FALSE, f.args).data[f.args[1]]

\* C15: a connection hands its write to the replicas only after every write applied
\* to the keyspace before it has been handed over.  Two connections have each applied
\* a SET of the same key with different values and neither has emitted yet: the one
\* whose value the keyspace holds applied last, so it must not emit first.
C15_EmissionFollowsApplication ==
    [][\A c, d \in DOMAIN pc :
        ( /\ c # d
          /\ replica # <<>>
          /\ pc[c] = "sync" /\ pc[d] = "sync"
          /\ pc'[c] = "read"
          /\ req[c].cmd = "SET" /\ req[d].cmd = "SET"
          /\ req[c].args[1] = req[d].args[1]
          /\ CellOfSet(req[c]) # CellOfSet(req[d]) )
            => data[req[c].args[1]] # CellOfSet(req[c])
      ]_vars

\* C16: the frames handed to a replica are the mutating commands that were executed
\* with success after its registration.  A command whose reply is an error is not
\* handed over; and a write that EXEC is about to execute while a replica is
\* registered has been handed over by the time EXEC is over and the connection
\* reads again.
C16_ReplicaGetsSuccessfulWrites ==
    /\ [][\A c \in DOMAIN pc :
            (replica # <<>> /\ pc[c] = "sync" /\ pc'[c] = "read")
                => out[c][Len(out[c])].t # "error"
         ]_vars
    /\ \A c \in Conns : \A f \in {g \in TxCmds : g.cmd = "SET"} :
            []( ( /\ replica # <<>>
                  /\ pc[c] = "run"
                  /\ todo[c] # <<>>
                  /\ Head(todo[c]) = f
                  /\ ~poisoned )
                => [](pc[c] = "read"
                        => \A i \in 1..Len(replica) :
                              \E j \in 1..Len(out[replica[i]]) :
                                  out[replica[i]][j] = FrameValue(f)) )

\* C17: the replica instance applies the propagated commands silently: whatever it
\* writes on the connection to the master is a REPLCONF ACK.
C17_ReplicaAppliesSilently ==
    \A i \in 1..Len(rep_node.written) :
        /\ rep_node.written[i].t = "array"
        /\ rep_node.written[i].a[1] = BulkString("REPLCONF")

\* C18: every array the master has written to the replica socket is eventually applied
\* by run_replica: the loop does not stop, and does not wait forever, before it.
C18_PropagatedWritesAreApplied ==
    \A n \in 2..(MaxSyncCmds + 2) :
        (replica # <<>> /\ Len(out[replica[1]]) >= n) ~> (rep_node.exec_pos >= n)

(***************************************************************************)
(* Properties of the read loop.                                            *)
(***************************************************************************)
\* C19: every request a connection sends is executed once, in the order sent: a read
\* of handle_task that takes bytes off the socket executes exactly the requests those
\* bytes hold, so the bytes it takes are the encoding of the one request it executes,
\* and it leaves the connection open.
C19_EveryFrameExecutedOnce ==
    [][\A c \in DOMAIN pc :
        wire'[c].buf # wire[c].buf /\ wire'[c].sent = wire[c].sent
            => /\ pc'[c] # "closed"
               /\ wire[c].buf = to_vec(req'[c]) \o wire'[c].buf
      ]_vars

(***************************************************************************)
(* Properties of streams, continued.                                       *)
(***************************************************************************)
\* C21: an XADD whose id is rejected replies the error of its case (0-0, or an id not
\* above the top id of the stream) and mutates nothing: the streams, the absent keys
\* among them, and the registry of blocked XREADs are what they were.
C21_RejectedXaddMutatesNothing ==
    [][\A c \in DOMAIN pc :
        (Reads(c) /\ req'[c].cmd = "XADD" /\ out'[c] # <<>> /\ out'[c][1].t = "error")
            => /\ out'[c][1] \in { OpErrorMessage("InvalidStreamId"),
                                   OpErrorMessage("TooSmallStreamId") }
               /\ (out'[c][1] = OpErrorMessage("InvalidStreamId"))
                     <=> (ParseXaddId(req'[c].args[2]) = StreamIdValue(0, 0))
               /\ stream' = stream
               /\ xread_blocked_task' = xread_blocked_task
               /\ mailbox' = mailbox
      ]_vars

\* C22: XADD key * succeeds whenever the clock has not gone back behind the top id of
\* the stream, also when it reads the millisecond of the top id.
C22_AutoIdAlwaysAccepted ==
    [][\A c \in DOMAIN pc :
        ( /\ Reads(c) /\ req'[c].cmd = "XADD" /\ req'[c].args[2] = "*"
          /\ out'[c] # <<>>
          /\ stream[req'[c].args[1]] # Absent
          /\ \A now \in Times : stream[req'[c].args[1]].last_entry_time_id <= now )
            => out'[c][1].t = "bulk"
      ]_vars

\* The id a bound of XRANGE or the start of XREAD stands for.
IdOf(x) == <<ParseI64(SplitOnceDash(x)[1]), ParseI64(SplitOnceDash(x)[2])>>

\* The reply entries that list the ids of S in ascending order.
ListsIds(listed, S) ==
    /\ Len(listed) = Cardinality(S)
    /\ \A i \in 1..Len(listed) :
          listed[i].a[1] = SimpleString(FormatId(AscendingIds(S)[i][1], AscendingIds(S)[i][2]))

\* C23: XRANGE key start end replies exactly the entries whose id lies between start
\* and end in the order of (time, seq), both included, in ascending order; - is the
\* least id and + the greatest.
C23_XrangeIsLexicographic ==
    [][\A c \in DOMAIN pc :
        (Reads(c) /\ req'[c].cmd = "XRANGE" /\ out'[c] # <<>>) =>
            LET key == req'[c].args[1]
                lo == req'[c].args[2]
                hi == req'[c].args[3]
                wanted == { id \in StreamIds(stream, key) :
                              /\ lo = "-" \/ ~IdLess(id, IdOf(lo))
                              /\ hi = "+" \/ ~IdLess(IdOf(hi), id) }
            IN  ListsIds(out'[c][1].a, wanted)
      ]_vars

\* C24: XREAD without block replies, for the requested key, exactly the entries whose
\* id is after the given id in the order of (time, seq), and a null array when there
\* is none.
C24_XreadReturnsEntriesAfterId ==
    [][\A c \in DOMAIN pc :
        (Reads(c) /\ req'[c].cmd = "XREAD" /\ req'[c].args[1] = "streams") =>
            LET key == req'[c].args[2]
                wanted == { id \in StreamIds(stream, key) :
                              IdLess(IdOf(req'[c].args[3]), id) }
            IN  /\ out'[c] # <<>>
                /\ IF wanted = {} THEN out'[c][1] = ArrayNull
                   ELSE /\ out'[c][1].t = "array"
                        /\ Len(out'[c][1].a) = 1
                        /\ out'[c][1].a[1].a[1] = BulkString(key)
                        /\ ListsIds(out'[c][1].a[1].a[2].a, wanted)
      ]_vars

(***************************************************************************)
(* Properties of the keyspace.                                             *)
(***************************************************************************)
\* C25: no key is at once a string, integer or list cell and a stream: XADD on a key
\* holding another kind of value replies WRONGTYPE and creates no stream, and SET on a
\* key holding a stream replaces the stream.
C25_OneCellPerKey ==
    [][ /\ \A k \in Keys : ~(data'[k] # Absent /\ stream'[k] # Absent)
        /\ \A c \in DOMAIN pc :
              ( /\ Reads(c) /\ req'[c].cmd = "XADD"
                /\ data[req'[c].args[1]] # Absent /\ IsLive(data[req'[c].args[1]]) )
                 => /\ out'[c] = <<OpErrorMessage("TypeMismatch")>>
                    /\ stream' = stream
        /\ \A c \in DOMAIN pc :
              ( /\ Reads(c) /\ req'[c].cmd = "SET"
                /\ stream[req'[c].args[1]] # Absent /\ out'[c] = <<SimpleString("OK")>> )
                 => stream'[req'[c].args[1]] = Absent
      ]_vars

\* C26: a push on a key holding a value that is not a list replies WRONGTYPE, and a push
\* that replies WRONGTYPE has changed nothing: the stored values and the registry of
\* blocked BLPOPs are what they were and no element was handed to a blocked task.
C26_WrongTypePushMutatesNothing ==
    [][\A p \in DOMAIN pc :
        /\ ( /\ Pushes(p) /\ out'[p] # <<>>
             /\ data[req'[p].args[1]] # Absent
             /\ data[req'[p].args[1]].value.t # "array" )
              => out'[p] = <<OpErrorMessage("TypeMismatch")>>
        /\ (Pushes(p) /\ out'[p] = <<OpErrorMessage("TypeMismatch")>>)
              => /\ data' = data
                 /\ lpop_blocked_task' = lpop_blocked_task
                 /\ mailbox' = mailbox
      ]_vars

\* C27: every operation treats an expired cell as an absent key: on a key whose cell
\* has expired TYPE replies none, INCR stores and replies 1, LLEN replies 0, LPOP
\* replies null, LRANGE replies an empty array and a push creates a new list.
C27_ExpiredCellIsAbsent ==
    [][\A c \in DOMAIN pc :
        ( /\ Reads(c) /\ out'[c] # <<>> /\ Len(req'[c].args) >= 1
          /\ data[req'[c].args[1]] # Absent
          /\ ~IsLive(data[req'[c].args[1]])
          /\ stream[req'[c].args[1]] = Absent )
            => LET key == req'[c].args[1]
                   cmd == req'[c].cmd
                   reply == out'[c][1]
               IN  /\ cmd = "TYPE" => reply = SimpleString("none")
                   /\ cmd = "INCR" => /\ reply = Integer(1)
                                      /\ data'[key] = ValueCell(Integer(1), "never")
                   /\ cmd = "LLEN" => reply = Integer(0)
                   /\ cmd = "LPOP" => reply = BulkNull
                   /\ cmd = "LRANGE" => reply = Array(<<>>)
                   /\ cmd \in {"RPUSH", "LPUSH"} =>
                         /\ reply = Integer(Len(req'[c].args) - 1)
                         /\ data'[key] # Absent
                         /\ data'[key].value.t = "array"
                         /\ Len(data'[key].value.a) = Len(req'[c].args) - 1
      ]_vars

\* C28: INCR on an absent or expired key stores and replies 1; on an integer it stores
\* and replies the old value plus 1; on any other value it replies "value is not an
\* integer or out of range" and leaves the stored value as it was.
C28_IncrCountsFromOne ==
    [][\A c \in DOMAIN pc :
        (Reads(c) /\ req'[c].cmd = "INCR" /\ out'[c] # <<>>)
            => LET key == req'[c].args[1]
                   reply == out'[c][1]
               IN  IF data[key] = Absent \/ ~IsLive(data[key])
                   THEN /\ reply = Integer(1)
                        /\ data' = [data EXCEPT ![key] = ValueCell(Integer(1), "never")]
                   ELSE IF data[key].value.t = "integer"
                   THEN /\ reply = Integer(data[key].value.n + 1)
                        /\ data' = [data EXCEPT ![key].value = reply]
                   ELSE /\ reply = SimpleError("ERR",
                                       "value is not an integer or out of range")
                        /\ data' = data
      ]_vars

\* The last INCR of a run has replied and stored the number of requests of the run,
\* as the last of that many INCRs in a row on a missing key does.
C28_Witness ==
    \E c \in DOMAIN pc :
        /\ req[c].cmd = "INCR"
        /\ nread[c] = MaxKeyCmds
        /\ out[c] = <<Integer(MaxKeyCmds)>>
        /\ data[req[c].args[1]] = ValueCell(Integer(MaxKeyCmds), "never")

\* C29: LPOP on an absent key or on an empty list replies a null bulk string; LPOP with
\* a count removes and replies the first min(count, length) elements of the list in
\* their order, and the list keeps the other elements in their order.
C29_LpopTakesFromHead ==
    [][\A c \in DOMAIN pc :
        ( /\ Reads(c) /\ req'[c].cmd = "LPOP" /\ out'[c] # <<>>
          /\ (data[req'[c].args[1]] = Absent \/ data[req'[c].args[1]].value.t = "array") )
            => LET key == req'[c].args[1]
                   arr == StoredList(data, key)
                   reply == out'[c][1]
                   count == IF Len(req'[c].args) > 1 THEN ParseI64(req'[c].args[2]) ELSE -1
               IN  IF arr = <<>>
                   THEN reply = BulkNull /\ data' = data
                   ELSE /\ count # -1 =>
                             /\ reply = Array(SubSeq(arr, 1, Min(count, Len(arr))))
                             /\ StoredList(data', key) =
                                    SubSeq(arr, Min(count, Len(arr)) + 1, Len(arr))
                        /\ count = -1 =>
                             /\ reply = Head(arr)
                             /\ StoredList(data', key) = Tail(arr)
      ]_vars

(***************************************************************************)
(* Properties of list ranges.                                              *)
(***************************************************************************)
\* The position a signed index stands for in a list of n elements.
Normalized(i, n) == IF i < 0 THEN n + i ELSE i

\* C30: LRANGE on a list of n elements replies the elements at the positions from
\* start to end, both counted from the tail when negative, start raised to 0 when it is
\* still below 0 and end lowered to the last position; it replies an empty array when
\* end is below start after that; it never fails and never changes the storage.
C30_LrangeNormalizesIndices ==
    [][\A c \in DOMAIN pc :
        (Reads(c) /\ req'[c].cmd = "LRANGE")
            => LET arr == StoredList(data, req'[c].args[1])
                   n == Len(arr)
                   from == Normalized(ParseI32(req'[c].args[2]).v, n)
                   to == Normalized(ParseI32(req'[c].args[3]).v, n)
                   first == IF from < 0 THEN 0 ELSE from
                   last == Min(to, n - 1)
               IN  /\ pc'[c] = "read"
                   /\ poisoned' = poisoned
                   /\ data' = data
                   /\ out'[c] = << IF last < first THEN Array(<<>>)
                                   ELSE Array(SubSeq(arr, first + 1, last + 1)) >>
      ]_vars

(***************************************************************************)
(* Properties of the connection loop.                                      *)
(***************************************************************************)
\* C31: a command whose name is none of the known ones is answered with an error
\* reply, and the connection stays open for its later commands.
C31_UnknownCommandGetsErrorReply ==
    [][\A c \in DOMAIN pc :
        (Reads(c) /\ req'[c].cmd \notin KnownCommands)
            => /\ out'[c] # <<>>
               /\ out'[c][1].t = "error"
               /\ pc'[c] = "read"
      ]_vars

(***************************************************************************)
(* serde_redis: the Encoder and the Decoder on bytes.  A byte is a string  *)
(* of one character; CR, LF and NUL stand for the bytes 13, 10 and 0.      *)
(***************************************************************************)
MaxArrayLen == 2

CR == "CR"

LF == "LF"

NUL == "NUL"

CRLF == <<CR, LF>>

\* Option
Some(x) == [some |-> TRUE, v |-> x]

None == [some |-> FALSE]

\* serde_redis::Null
Null == [t |-> "null"]

\* utils::num_to_bytes: the decimal digits without the sign.
RECURSIVE num_to_bytes(_)
num_to_bytes(v) ==
    LET n == IF v < 0 THEN -v ELSE v
    IN  IF n < 10 THEN <<Digits[n + 1]>>
        ELSE num_to_bytes(n \div 10) \o <<Digits[(n % 10) + 1]>>

DigitValue(x) ==
    IF \E d \in 1..10 : Digits[d] = x THEN (CHOOSE d \in 1..10 : Digits[d] = x) - 1 ELSE 0

\* utils::bytes_to_num: a byte that is no digit counts as 0.
RECURSIVE bytes_to_num(_)
bytes_to_num(v) ==
    IF v = <<>> THEN 0
    ELSE 10 * bytes_to_num(SubSeq(v, 1, Len(v) - 1)) + DigitValue(v[Len(v)])

encode_simple_string(v) == <<"+">> \o v \o CRLF

encode_integer(v) == <<":", IF v >= 0 THEN "+" ELSE "-">> \o num_to_bytes(v) \o CRLF

encode_bulk_string(v) ==
    IF v.some THEN <<"$">> \o num_to_bytes(Len(v.v)) \o CRLF \o v.v \o CRLF
    ELSE <<"$", "-", "1">> \o CRLF

encode_array_prefix(len) ==
    <<"*">> \o (IF len.some THEN num_to_bytes(len.v) ELSE <<"-", "1">>) \o CRLF

encode_null == <<"_">> \o CRLF

RECURSIVE ConcatAll(_)
ConcatAll(ss) == IF ss = <<>> THEN <<>> ELSE ss[1] \o ConcatAll(Tail(ss))

\* Value::serialize on the Encoder: every variant hands itself to the serializer
\* method its Serialize impl names.
RECURSIVE serialize(_)
serialize(value) ==
    CASE value.t = "simple" -> encode_simple_string(value.s)
      [] value.t = "error" ->
            <<"-">> \o (IF value.prefix.some THEN value.prefix.v \o <<" ">> ELSE <<>>)
                    \o value.msg \o CRLF
      [] value.t = "integer" -> encode_integer(value.n)
      [] value.t = "bulk" -> encode_bulk_string(Some(value.s))
      [] value.t = "bulk_null" -> encode_bulk_string(None)
      [] value.t = "array" ->
            encode_array_prefix(Some(Len(value.a)))
                \o ConcatAll([i \in 1..Len(value.a) |-> serialize(value.a[i])])
      [] value.t = "array_null" -> encode_array_prefix(Some(1))
      [] value.t = "null" -> encode_null

\* encode::to_vec on a Value
value_to_vec(value) == serialize(value)

\* The cursor of the Decoder is the index of the next byte of the input.
has_remaining(input, pos) == pos <= Len(input)

\* Foresee::foresee: true moves the cursor one byte on.
foresee(input, pos, ch) == pos <= Len(input) /\ input[pos] = ch

\* Foresee::foresee_crlf: true moves the cursor two bytes on.
foresee_crlf(input, pos) == foresee(input, pos, CR) /\ foresee(input, pos + 1, LF)

\* Collectable::collect_over_crlf: the bytes before the next CRLF, with the cursor
\* behind that CRLF, or all the bytes left when there is none.
collect_over_crlf(input, pos) ==
    LET at == {i \in pos..Len(input) : foresee_crlf(input, i)}
    IN  IF at = {} THEN [v |-> SubSeq(input, pos, Len(input)), pos |-> Len(input) + 1]
        ELSE LET i == CHOOSE x \in at : \A y \in at : x <= y
             IN  [v |-> SubSeq(input, pos, i - 1), pos |-> i + 2]

ParseOk(v, pos) == [ok |-> TRUE, v |-> v, pos |-> pos]

ParseErr(e, pos) == [ok |-> FALSE, e |-> e, pos |-> pos]

\* ParseResult
ParseResult(t, r) == IF r.ok THEN [ok |-> TRUE, t |-> t, v |-> r.v, pos |-> r.pos] ELSE r

\* Decoder::parse_integer, the cursor behind the ':'
parse_integer(input, pos) ==
    IF ~(foresee(input, pos, "-") \/ foresee(input, pos, "+"))
    THEN ParseErr("InvalidPrefix", pos)
    ELSE LET c == collect_over_crlf(input, pos + 1)
         IN  ParseOk(IF input[pos] = "-" THEN -1 * bytes_to_num(c.v) ELSE bytes_to_num(c.v),
                     c.pos)

parse_simple_string(input, pos) ==
    IF ~foresee(input, pos, "+") THEN ParseErr("InvalidPrefix", pos)
    ELSE LET c == collect_over_crlf(input, pos + 1) IN ParseOk(c.v, c.pos)

parse_simple_error(input, pos) ==
    IF ~foresee(input, pos, "-") THEN ParseErr("InvalidPrefix", pos)
    ELSE LET c == collect_over_crlf(input, pos + 1) IN ParseOk(c.v, c.pos)

\* while length.len() < 4 { length.insert(0, 0) }
RECURSIVE PadLength(_)
PadLength(length) == IF Len(length) < 4 THEN PadLength(<<NUL>> \o length) ELSE length

\* Decoder::parse_bulk_string: the bytes it returns start with the length, four bytes
\* wide; the null bulk string is no byte at all, and the empty one returns before the
\* CRLF that ends its data is read.
parse_bulk_string(input, pos) ==
    IF ~foresee(input, pos, "$") THEN ParseErr("InvalidPrefix", pos)
    ELSE LET c == collect_over_crlf(input, pos + 1)
             length == PadLength(c.v)
             n == bytes_to_num(length)
         IN  IF c.v = <<"-", "1">> THEN ParseOk(<<>>, c.pos)
             ELSE IF c.v = <<"0">> THEN ParseOk(<<NUL, NUL, NUL, NUL>>, c.pos)
             ELSE IF Len(input) - c.pos + 1 < n THEN ParseErr("Custom", c.pos)
             ELSE IF ~foresee_crlf(input, c.pos + n) THEN ParseErr("Unterminated", c.pos + n)
             ELSE ParseOk(length \o SubSeq(input, c.pos, c.pos + n - 1), c.pos + n + 2)

\* Decoder::parse_any: peek leaves the cursor on the prefix byte.
parse_any(input, pos) ==
    IF ~has_remaining(input, pos) THEN ParseErr("EOF", pos)
    ELSE CASE input[pos] = "+" -> ParseResult("SimpleString", parse_simple_string(input, pos))
           [] input[pos] = "-" -> ParseResult("SimpleError", parse_simple_error(input, pos))
           [] input[pos] = ":" -> ParseResult("Integer", parse_integer(input, pos + 1))
           [] input[pos] = "$" -> ParseResult("BulkString", parse_bulk_string(input, pos))
           [] input[pos] = "*" ->
                IF /\ foresee(input, pos, "-")
                   /\ foresee(input, pos + 1, "1")
                   /\ foresee(input, pos + 2, CR)
                   /\ foresee(input, pos + 3, LF)
                THEN ParseResult("Array", ParseOk(-1, pos + 4))
                ELSE LET c == collect_over_crlf(input, pos)
                     IN  ParseResult("Array", ParseOk(bytes_to_num(c.v), c.pos))
           [] OTHER -> ParseErr("UnknownPrefix", pos)

UpperCase ==
    {"A", "B", "C", "D", "E", "F", "G", "H", "I", "J", "K", "L", "M", "N", "O", "P", "Q",
     "R", "S", "T", "U", "V", "W", "X", "Y", "Z"}

\* str::trim_start
RECURSIVE trim_start(_)
trim_start(v) == IF v # <<>> /\ v[1] = " " THEN trim_start(Tail(v)) ELSE v

\* SimpleErrorVisitor::visit_string
SimpleErrorVisitor(v) ==
    IF ~\E i \in 1..Len(v) : v[i] = " " THEN SimpleError(None, v)
    ELSE LET space_pos == CHOOSE i \in 1..Len(v) :
                              v[i] = " " /\ \A j \in 1..(i - 1) : v[j] # " "
             has_prefix == space_pos > 1 /\ \A j \in 1..(space_pos - 1) : v[j] \in UpperCase
         IN  IF has_prefix
             THEN SimpleError(Some(SubSeq(v, 1, space_pos - 1)),
                              trim_start(SubSeq(v, space_pos, Len(v))))
             ELSE SimpleError(None, v)

\* BulkStringVisitor::visit_byte_buf
BulkStringVisitor(v) ==
    IF Len(v) < 4 THEN Ok(BulkNull)
    ELSE IF Len(v) # bytes_to_num(SubSeq(v, 1, 4)) + 4 THEN Err("Custom")
    ELSE Ok(BulkString(SubSeq(v, 5, Len(v))))

\* Decoder::deserialize_enum for serde_redis::Value with the ValueVisitor, and the
\* elements Concatenated::next_element_seed hands to ArrayVisitor::visit_seq after the
\* flag.
RECURSIVE deserialize_enum(_, _), next_elements(_, _, _)
deserialize_enum(input, pos) ==
    LET r == parse_any(input, pos)
    IN  IF ~r.ok THEN r
        ELSE CASE r.t = "SimpleString" -> ParseOk(SimpleString(r.v), r.pos)
               [] r.t = "SimpleError" -> ParseOk(SimpleErrorVisitor(r.v), r.pos)
               [] r.t = "Integer" -> ParseOk(Integer(r.v), r.pos)
               [] r.t = "BulkString" ->
                    LET b == BulkStringVisitor(r.v)
                    IN  IF b.ok THEN ParseOk(b.v, r.pos) ELSE ParseErr(b.e, r.pos)
               [] r.t = "Array" ->
                    IF r.v = -1 THEN ParseOk(ArrayNull, r.pos)
                    ELSE LET e == next_elements(input, r.pos, r.v)
                         IN  IF e.ok THEN ParseOk(Array(e.v), e.pos) ELSE e

next_elements(input, pos, count) ==
    IF count <= 0 THEN ParseOk(<<>>, pos)
    ELSE LET v == deserialize_enum(input, pos)
         IN  IF ~v.ok THEN v
             ELSE LET rest == next_elements(input, v.pos, count - 1)
                  IN  IF ~rest.ok THEN rest ELSE ParseOk(<<v.v>> \o rest.v, rest.pos)

\* decode::from_bytes::<Value>
value_from_bytes(s) ==
    LET r == deserialize_enum(s, 1) IN IF r.ok THEN Ok(r.v) ELSE Err(r.e)

(***************************************************************************)
(* The codec on the Values of the grammar: values without an array, arrays *)
(* of those, and arrays of both.                                           *)
(***************************************************************************)
CodecLeaves ==
    {SimpleString(<<>>), SimpleString(<<"O", "K">>),
     SimpleError(None, <<"e", "r", "r">>), SimpleError(Some(<<"E", "R", "R">>), <<"n", "o">>),
     Integer(0), Integer(-1), Integer(12),
     BulkString(<<>>), BulkString(<<"h", "i">>), BulkNull, Null}

SeqsUpTo(S, n) == UNION {[1..k -> S] : k \in 0..n}

CodecElements ==
    CodecLeaves \cup {ArrayNull, Array(<<>>)} \cup {Array(<<x>>) : x \in CodecLeaves}

CodecValues == CodecElements \cup {Array(a) : a \in SeqsUpTo(CodecElements, MaxArrayLen)}

\* to_vec(&value)
ToVec ==
    /\ codec.phase = "value"
    /\ codec' = [codec EXCEPT !.phase = "encoded", !.bytes = value_to_vec(codec.value)]
    /\ UNCHANGED <<server_vars, rep>>

\* from_bytes::<Value>(&bytes)
FromBytes ==
    /\ codec.phase = "encoded"
    /\ codec' = [codec EXCEPT !.phase = "decoded", !.decoded = value_from_bytes(codec.bytes)]
    /\ UNCHANGED <<server_vars, rep>>

InitCodec ==
    /\ InitServer({1})
    /\ rep = RepIdle
    /\ \E v \in CodecValues : codec = [CodecIdle EXCEPT !.phase = "value", !.value = v]

NextCodec == ToVec \/ FromBytes

SpecCodec == InitCodec /\ [][NextCodec]_vars

\* C32: whatever Value of the grammar is encoded, decoding the bytes gives that Value
\* back.
C32_DecodeInvertsEncode ==
    codec.phase = "decoded" => codec.decoded = Ok(codec.value)

(***************************************************************************)
(* Blocked XREADs: three clients, two streams.                             *)
(***************************************************************************)
MaxWaiterCmds == 3

WaiterConns == {1, 2, 3}

WaiterCmds ==
    { Frame("XADD", <<"s", id, "f", "v">>) : id \in {"1-0", "1-1", "2-0"} }
    \cup { Frame("XREAD", <<"block", "0", "streams", "s", "1-1">>),
           Frame("XREAD", <<"block", "0", "streams", "q", "0-0">>),
           Frame("XREAD", <<"block", "1", "streams", "s", "0-0">>),
           Frame("XREAD", <<"block", "0", "streams", "s", "$">>) }

InitWaiters == InitOf(WaiterConns)

NextWaiters ==
    \E c \in WaiterConns :
        \/ RecvXadd(c, WaiterCmds, MaxWaiterCmds)
        \/ RecvXreadBlock(c, WaiterCmds, MaxWaiterCmds)
        \/ XreadWake(c)
        \/ XreadTimeout(c)
        \/ ReplicaSync(c)

SpecWaiters == InitWaiters /\ [][NextWaiters]_vars

\* The step is an XADD of connection c that added the entry time_id-seq_id.
XaddAdds(c, time_id, seq_id) ==
    /\ Reads(c)
    /\ req'[c].cmd = "XADD"
    /\ out'[c] = <<BulkString(FormatId(time_id, seq_id))>>

XaddSucceeds(c) == \E time_id \in 0..2, seq_id \in 0..2 : XaddAdds(c, time_id, seq_id)

\* C33: an XADD that takes a waiter out of the registry takes out one whose targets
\* hold the key of the XADD and leaves every other waiter as it was, and only the
\* connection of the waiter taken out is sent anything.
C33_XaddWakesTheMatchingWaiter ==
    [][\A c \in DOMAIN pc :
        (Reads(c) /\ req'[c].cmd = "XADD" /\ xread_blocked_task' # xread_blocked_task)
            => \E i \in 1..Len(xread_blocked_task) :
                  /\ \E j \in 1..Len(xread_blocked_task[i].targets) :
                        xread_blocked_task[i].targets[j].key = req'[c].args[1]
                  /\ xread_blocked_task' = RemoveAt(xread_blocked_task, i)
                  /\ \A d \in DOMAIN mailbox :
                        mailbox'[d] # mailbox[d] => d = xread_blocked_task[i].conn
      ]_vars

\* The id time_id-seq_id is at or after the threshold of the target, in the order of
\* (time, seq) pairs.
AtOrAfter(target, time_id, seq_id) ==
    \/ target.start_time_id < time_id
    \/ target.start_time_id = time_id /\ target.start_seq_id <= seq_id

\* C34: an XADD to a key that adds an entry at or after the threshold of a registered
\* target on that key takes a waiter out of the registry.
C34_ThresholdIsLexicographic ==
    [][\A c \in DOMAIN pc : \A time_id \in 0..2, seq_id \in 0..2 :
        (/\ XaddAdds(c, time_id, seq_id)
         /\ \E i \in 1..Len(xread_blocked_task) :
              \E j \in 1..Len(xread_blocked_task[i].targets) :
                 LET target == xread_blocked_task[i].targets[j]
                 IN  /\ ~target.only_new_entry
                     /\ target.key = req'[c].args[1]
                     /\ AtOrAfter(target, time_id, seq_id))
            => Len(xread_blocked_task') < Len(xread_blocked_task)
      ]_vars

Waiters(xtasks) ==
    [i \in 1..Len(xtasks) |-> [conn |-> xtasks[i].conn, open |-> xtasks[i].open]]

\* C36: a waiter that a step takes out of the registry to fire its channel still has
\* its receiver, so it is not one whose command has replied on timeout.
C36_TimedOutWaiterIsNeverFired ==
    [][Len(xread_blocked_task') < Len(xread_blocked_task)
        => \E i \in 1..Len(xread_blocked_task) :
              /\ Waiters(xread_blocked_task') = RemoveAt(Waiters(xread_blocked_task), i)
              /\ xread_blocked_task[i].open
      ]_vars

(***************************************************************************)
(* An instance started with --replicaof: the handshake with its master and *)
(* the start of run_replica.  The master is whatever answers on the other  *)
(* end of the socket.                                                      *)
(***************************************************************************)
\* The values of --port the instance is started with.
Ports == {6379, 6380}

\* let ping = Value::Array(..)
ping == Array(<<BulkString(<<"P", "I", "N", "G">>)>>)

\* let replconf = Value::Array(..) with listening-port and port.to_string()
replconf_listening_port(port) ==
    Array(<<BulkString(<<"R", "E", "P", "L", "C", "O", "N", "F">>),
            BulkString(<<"l", "i", "s", "t", "e", "n", "i", "n", "g", "-", "p", "o", "r", "t">>),
            BulkString(num_to_bytes(port))>>)

\* let replconf = Value::Array(..) with capa psync2
replconf_capa ==
    Array(<<BulkString(<<"R", "E", "P", "L", "C", "O", "N", "F">>),
            BulkString(<<"c", "a", "p", "a">>),
            BulkString(<<"p", "s", "y", "n", "c", "2">>)>>)

\* let psync = Value::Array(..)
psync ==
    Array(<<BulkString(<<"P", "S", "Y", "N", "C">>), BulkString(<<"?">>),
            BulkString(<<"-", "1">>)>>)

\* The request of every step of ReplicationInner::handshake, in the order of its code.
HandshakeRequest(step, port) ==
    CASE step = 1 -> ping
      [] step = 2 -> replconf_listening_port(port)
      [] step = 3 -> replconf_capa
      [] step = 4 -> psync

\* str::split(' ')
RECURSIVE split(_)
split(s) ==
    IF ~\E i \in 1..Len(s) : s[i] = " " THEN <<s>>
    ELSE LET i == CHOOSE x \in 1..Len(s) : s[x] = " " /\ \A j \in 1..(x - 1) : s[j] # " "
         IN  <<SubSeq(s, 1, i - 1)>> \o split(SubSeq(s, i + 1, Len(s)))

PONG == <<"P", "O", "N", "G">>

OK == <<"O", "K">>

FULLRESYNC == <<"F", "U", "L", "L", "R", "E", "S", "Y", "N", "C">>

\* ReplicationInner::handshake accepts any simple string as the reply of every step.
ReplyAcceptedAnySimpleString(step, r) == r.ok /\ r.v.t = "simple"

\* The match of ReplicationInner::handshake on what from_bytes made of the bytes
\* the read of a step returned.
ReplyAccepted(step, r) ==
    /\ r.ok
    /\ r.v.t = "simple"
    /\ CASE step = 1 -> r.v.s = PONG
         [] step \in {2, 3} -> r.v.s = OK
         [] step = 4 ->
              LET segs == split(r.v.s)
              IN  Len(segs) = 3 /\ segs[1] = FULLRESYNC /\ segs[3] = <<"0">>

\* The replication id the master names in its reply to PSYNC.
MasterId == <<"i", "d">>

\* What the other end may answer a request with.
MasterReplies ==
    {SimpleString(PONG), SimpleString(OK),
     SimpleString(FULLRESYNC \o <<" ">> \o MasterId \o <<" ", "0">>),
     SimpleString(FULLRESYNC \o <<" ">> \o MasterId \o <<" ", "1">>),
     SimpleError(Some(<<"E", "R", "R">>), <<"n", "o">>),
     BulkString(PONG)}

\* The snapshot as the master transfers it: $<len>\r\n<bytes>, no CRLF behind the bytes.
RdbFile == <<"$", "2", CR, LF, "R", "D">>

\* ReplicationState::handshake takes the lock of ReplicationState.inner and runs
\* ReplicationInner::handshake up to its first read: no master configured is
\* Err(ReplicaConfigNotSet), a failed connect is an Err, else PING is written.
HandshakeConnect ==
    /\ rep.pc = "start"
    /\ IF ~rep.master THEN rep' = [rep EXCEPT !.pc = "failed"]
       ELSE \E connected \in BOOLEAN :
                rep' = IF connected
                       THEN [rep EXCEPT !.pc = "handshake", !.lock = TRUE,
                                        !.sent = <<value_to_vec(ping)>>]
                       ELSE [rep EXCEPT !.pc = "failed"]
    /\ UNCHANGED <<server_vars, codec>>

\* The other end answers the request it has not answered yet, or closes the socket.
MasterReply ==
    /\ rep.pc = "handshake"
    /\ rep.replied < Len(rep.sent)
    /\ ~rep.closed
    /\ \/ \E v \in MasterReplies :
            rep' = [rep EXCEPT !.socket = @ \o value_to_vec(v), !.replied = @ + 1]
       \/ rep' = [rep EXCEPT !.closed = TRUE]
    /\ UNCHANGED <<server_vars, codec>>

\* The other end has answered PSYNC and sends the snapshot behind its answer.
MasterSnapshot ==
    /\ rep.pc \in {"handshake", "connected", "rdb"}
    /\ rep.replied = 4
    /\ rep.frames = <<>>
    /\ ~rep.closed
    /\ rep' = [rep EXCEPT !.socket = @ \o RdbFile, !.replied = @ + 1]
    /\ UNCHANGED <<server_vars, codec>>

\* One read of ReplicationInner::handshake returns: the first n unread bytes, or no
\* byte when the other end closed.  from_bytes decodes one Value from them; a reply
\* the match of this step does not accept ends the handshake with an Err, else the
\* next request is written, and after the reply to PSYNC the handshake returns Ok.
HandshakeRead ==
    /\ rep.pc = "handshake"
    /\ \E n \in 0..Len(rep.socket) :
        /\ IF rep.socket = <<>> THEN rep.closed ELSE n >= 1
        /\ LET bytes == SubSeq(rep.socket, 1, n)
               step == Len(rep.sent)
               read == [rep EXCEPT !.socket = SubSeq(@, n + 1, Len(@)),
                                   !.got = Append(@, bytes)]
           IN  rep' =
                 IF ~ReplyAccepted(step, value_from_bytes(bytes))
                 THEN [read EXCEPT !.pc = "failed", !.lock = FALSE]
                 ELSE IF step < 4
                 THEN [read EXCEPT !.sent =
                                     Append(@, value_to_vec(HandshakeRequest(step + 1, rep.port)))]
                 ELSE [read EXCEPT !.pc = "connected", !.lock = FALSE]
    /\ UNCHANGED <<server_vars, codec>>

\* main after the handshake: Err gives rep_master_conn = None and run_replica returns
\* at once; Ok gives the connection and run_replica goes on to read the snapshot.
RunReplica ==
    /\ rep.pc \in {"failed", "connected"}
    /\ rep' = [rep EXCEPT !.pc = IF rep.pc = "connected" THEN "rdb" ELSE "skipped"]
    /\ UNCHANGED <<server_vars, codec>>

InitHandshake ==
    /\ InitServer({1})
    /\ codec = CodecIdle
    /\ \E m \in BOOLEAN, p \in Ports :
          rep = [RepIdle EXCEPT !.master = m, !.port = p, !.pc = "start"]

NextHandshake ==
    HandshakeConnect \/ MasterReply \/ MasterSnapshot \/ HandshakeRead \/ RunReplica

SpecHandshake == InitHandshake /\ [][NextHandshake]_vars

\* The bytes of a read are the reply `reply`: they start with all of its bytes, or
\* they are its bytes up to the closing CRLF and the read ended there.
Begins(bytes, reply) ==
    \/ bytes = SubSeq(reply, 1, Len(reply) - 2)
    \/ Len(bytes) >= Len(reply) /\ SubSeq(bytes, 1, Len(reply)) = reply

\* The reply the handshake expects to the request of a step.
ExpectedReply(step) ==
    CASE step = 1 -> SimpleString(PONG)
      [] step \in {2, 3} -> SimpleString(OK)
      [] step = 4 -> SimpleString(FULLRESYNC \o <<" ">> \o MasterId \o <<" ", "0">>)

Expected(step) == Begins(rep.got[step], value_to_vec(ExpectedReply(step)))

\* C37: the requests written to the master are PING, REPLCONF listening-port <port>,
\* REPLCONF capa psync2 and PSYNC ? -1 in that order, a request is only written after
\* the expected reply to the one before it was read, a read of any other reply ends the
\* handshake with no further request, and run_replica goes past its first check only
\* after all four expected replies.
C37_HandshakeStepsInOrder ==
    /\ Len(rep.sent) <= 4
    /\ \A k \in 1..Len(rep.sent) : rep.sent[k] = value_to_vec(HandshakeRequest(k, rep.port))
    /\ Len(rep.got) <= Len(rep.sent)
    /\ Len(rep.sent) <= Len(rep.got) + 1
    /\ \A k \in 1..Len(rep.got) :
          IF Expected(k) THEN k = 4 \/ Len(rep.sent) > k
          ELSE Len(rep.sent) = k /\ rep.pc \in {"failed", "skipped"}
    /\ rep.pc = "rdb" => Len(rep.got) = 4 /\ \A k \in 1..4 : Expected(k)

\* +PONG was read and REPLCONF listening-port written, the reply to it was another
\* one, and run_replica returned without a connection.
C37_Witness ==
    /\ rep.pc = "skipped"
    /\ Len(rep.sent) = 2
    /\ Len(rep.got) = 2
    /\ rep.got[2] = value_to_vec(SimpleError(Some(<<"E", "R", "R">>), <<"n", "o">>))

\* C40: a task that waits for a socket holds no mutex; here the task of the handshake
\* waiting for the reply of the master and the lock of ReplicationState.inner.
C40_NoMutexAcrossSuspension == rep.pc = "handshake" => ~rep.lock

\* C38: the socket of every replica carries the reply to PSYNC first, then the snapshot,
\* and the propagated commands only behind the snapshot; the task that handed the
\* socket over reads no further request from it.
C38_SnapshotPrecedesPropagation ==
    \A i \in 1..Len(replica) :
        LET c == replica[i]
        IN  /\ pc[c] = "replica"
            /\ Len(out[c]) >= 2
            /\ out[c][1] = SimpleString("FULLRESYNC " \o ReplicationId \o " 0")
            /\ out[c][2].t = "snapshot"

(***************************************************************************)
(* run_replica on the connection the handshake left: the snapshot, then    *)
(* the commands the master propagates, read in pieces of any size.         *)
(***************************************************************************)
MaxApplyCmds == 2

\* let mut buf = [0u8; 1024]
BufSize == 1024

REPLCONF == <<"R", "E", "P", "L", "C", "O", "N", "F">>

\* The words of the propagated commands: the String and its bytes.
Words ==
    <<[s |-> "SET", b |-> <<"S", "E", "T">>], [s |-> "a", b |-> <<"a">>],
      [s |-> "1", b |-> <<"1">>], [s |-> "PING", b |-> <<"P", "I", "N", "G">>],
      [s |-> "REPLCONF", b |-> REPLCONF],
      [s |-> "GETACK", b |-> <<"G", "E", "T", "A", "C", "K">>],
      [s |-> "*", b |-> <<"*">>], [s |-> "FOO", b |-> <<"F", "O", "O">>],
      [s |-> "", b |-> <<>>]>>

\* String::from_utf8 on the bytes of a bulk string
from_utf8(b) ==
    IF \E i \in 1..Len(Words) : Words[i].b = b
    THEN Words[CHOOSE i \in 1..Len(Words) : Words[i].b = b].s
    ELSE "?"

\* str::as_bytes
as_bytes(s) == Words[CHOOSE i \in 1..Len(Words) : Words[i].s = s].b

\* The commands the master propagates or sends to its replicas.
MasterFrames ==
    {Frame("SET", <<"a", "1">>), Frame("SET", <<"a", "">>),
     Frame("REPLCONF", <<"GETACK", "*">>), Frame("PING", <<>>), Frame("FOO", <<>>)}

\* The bytes of a request: to_vec of the array of its bulk strings.
FrameBytes(f) ==
    value_to_vec(Array(<<BulkString(as_bytes(f.cmd))>>
                       \o [i \in 1..Len(f.args) |-> BulkString(as_bytes(f.args[i]))]))

\* handle_replconf_command for getack: REPLCONF ACK <offset>
ReplconfAck(offset) ==
    Array(<<BulkString(REPLCONF), BulkString(<<"A", "C", "K">>),
            BulkString(num_to_bytes(offset))>>)

\* ReplicationState::add_offset
add_offset(offset, len) == offset + len

\* The master writes a command to the socket of the replica.
MasterSend ==
    /\ rep.pc \in {"rdb", "read", "exec"}
    /\ Len(rep.frames) < MaxApplyCmds
    /\ \E f \in MasterFrames :
          rep' = [rep EXCEPT !.socket = @ \o FrameBytes(f),
                             !.frames = Append(@, FrameBytes(f))]
    /\ UNCHANGED <<server_vars, codec>>

\* run_replica reads the RDB file transfer: '$', the digits of the length up to CR,
\* LF, then as many bytes as the length says; another first byte or a missing LF ends
\* run_replica, which drops the connection, and read_exact waits until the bytes it
\* asked for are there.
ReadRdb ==
    /\ rep.pc = "rdb"
    /\ rep.socket # <<>>
    /\ IF rep.socket[1] # "$"
       THEN rep' = [rep EXCEPT !.pc = "stopped", !.socket = <<>>]
       ELSE /\ \E i \in 2..Len(rep.socket) : rep.socket[i] = CR
            /\ LET i == CHOOSE x \in 2..Len(rep.socket) :
                            rep.socket[x] = CR /\ \A y \in 2..(x - 1) : rep.socket[y] # CR
                   length == bytes_to_num(SubSeq(rep.socket, 2, i - 1))
               IN  /\ Len(rep.socket) > i
                   /\ IF rep.socket[i + 1] # LF
                      THEN rep' = [rep EXCEPT !.pc = "stopped", !.socket = <<>>]
                      ELSE /\ Len(rep.socket) >= i + 1 + length
                           /\ rep' = [rep EXCEPT !.pc = "read",
                                                 !.socket = SubSeq(@, i + 2 + length, Len(@))]
    /\ UNCHANGED <<server_vars, codec>>

\* The outer loop of run_replica: one read returns the first n unread bytes.
ApplyRead ==
    /\ rep.pc = "read"
    /\ \E n \in 1..Min(Len(rep.socket), BufSize) :
          rep' = [rep EXCEPT !.pc = "exec", !.buf = SubSeq(rep.socket, 1, n),
                             !.socket = SubSeq(@, n + 1, Len(@))]
    /\ UNCHANGED <<server_vars, codec>>

\* from_bytes_len::<Array> gave an array the dispatcher can take the command from:
\* bulk strings, the first of them the name.
IsRequest(r) ==
    /\ r.ok
    /\ r.v.t = "array"
    /\ r.v.a # <<>>
    /\ \A i \in 1..Len(r.v.a) : r.v.a[i].t = "bulk"

\* The name and the arguments dispatch_command takes from the array.
RequestOf(v) ==
    Frame(from_utf8(v.a[1].s), [i \in 1..(Len(v.a) - 1) |-> from_utf8(v.a[i + 1].s)])

\* The end of a turn of the inner loop of run_replica: rep.add_offset(len),
\* exec_pos += len, and back to the read when all the bytes of the read are used.
AfterFrame(len) ==
    [rep EXCEPT !.offset = add_offset(@, len),
                !.applied = Append(@, SubSeq(rep.buf, 1, len)),
                !.buf = SubSeq(@, len + 1, Len(@)),
                !.pc = IF len = Len(rep.buf) THEN "read" ELSE "exec"]

\* run_replica returns with an Err and drops the connection.
ApplyFailed == [rep EXCEPT !.pc = "stopped", !.socket = <<>>, !.buf = <<>>]

\* One turn of the inner loop of run_replica: from_bytes_len decodes the array at
\* exec_pos and tells its length, dispatch_command runs it on a Conn around the
\* connection to the master (handle_replconf_command answers getack with the offset),
\* then add_offset(len) and exec_pos += len; an Err ends run_replica.
ApplyFrame ==
    /\ rep.pc = "exec"
    /\ \E r \in {deserialize_enum(rep.buf, 1)} :
          IF ~IsRequest(r) THEN rep' = ApplyFailed /\ UNCHANGED rep_node
          ELSE \E f \in {RequestOf(r.v)} :
                 IF f.cmd = "REPLCONF"
                 THEN /\ rep' = IF f.args # <<>> /\ f.args[1] = "GETACK"
                                THEN [AfterFrame(r.pos - 1) EXCEPT
                                          !.acks = Append(@, ReplconfAck(rep.offset))]
                                ELSE ApplyFailed
                      /\ UNCHANGED rep_node
                 ELSE \E d \in {dispatch_normal_command(rep_node.data,
                                                        rep_node.lpop_blocked_task, FALSE,
                                                        f.cmd, f.args)} :
                        IF d.status = "ok"
                        THEN /\ rep' = AfterFrame(r.pos - 1)
                             /\ rep_node' = [rep_node EXCEPT
                                                !.data = d.data,
                                                !.lpop_blocked_task = d.tasks,
                                                !.written = Append(@, d.reply)]
                        ELSE rep' = ApplyFailed /\ UNCHANGED rep_node
    /\ UNCHANGED <<data, lpop_blocked_task, poisoned, transaction, pc, req, out, events,
                   todo, produced, mailbox, blk, replica, nread, stream,
                   xread_blocked_task, wire, codec>>

\* The instance after a handshake that read every reply whole.
InitApply ==
    /\ InitServer({1})
    /\ codec = CodecIdle
    /\ \E p \in {6379} :
          rep = [RepIdle EXCEPT !.master = TRUE, !.port = p, !.pc = "rdb", !.replied = 4,
                                !.sent = [k \in 1..4 |-> value_to_vec(HandshakeRequest(k, p))],
                                !.got = [k \in 1..4 |-> value_to_vec(ExpectedReply(k))]]

NextApply == MasterSnapshot \/ MasterSend \/ ReadRdb \/ ApplyRead \/ ApplyFrame

SpecApply == InitApply /\ [][NextApply]_vars

RECURSIVE TotalLen(_)
TotalLen(ss) == IF ss = <<>> THEN 0 ELSE Len(ss[1]) + TotalLen(Tail(ss))

\* The number of GETACK requests among the first g frames the master sent.
Getacks(g) ==
    Cardinality({i \in 1..g : rep.frames[i] = FrameBytes(Frame("REPLCONF", <<"GETACK", "*">>))})

\* C39: the offset of the replica is the number of bytes of the frames of the master
\* it has applied, and the answer to every applied GETACK carries the number of bytes
\* of the frames before that GETACK.
C39_OffsetCountsAppliedBytes ==
    /\ Len(rep.applied) <= Len(rep.frames)
    /\ rep.offset = TotalLen(SubSeq(rep.frames, 1, Len(rep.applied)))
    /\ Len(rep.acks) = Getacks(Len(rep.applied))
    /\ \A g \in 1..Len(rep.applied) :
          rep.frames[g] = FrameBytes(Frame("REPLCONF", <<"GETACK", "*">>))
              => rep.acks[Getacks(g)] = ReplconfAck(TotalLen(SubSeq(rep.frames, 1, g - 1)))

====
